---- MODULE Spec2Model ----
(***************************************************************************)
(* A model of the capture decoders of tools/:                              *)
(*   parse_btsnoop.py, parse_btsnoop_v2.py, parse_btsnoop_v3.py,           *)
(*   analyze_autel_protocol.py, analyze_autel_protocol_v2.py.              *)
(* One behaviour is one run of one script on one capture file.  The file   *)
(* is a sequence of bytes; every layer is translated from the script's     *)
(* code, with Python's slicing, indexing and struct.unpack semantics       *)
(* (an out-of-range index or a wrong-sized unpack raises).                 *)
(***************************************************************************)
EXTENDS Integers, Sequences, FiniteSets, TLC

VARIABLES
    tool,            \* which script runs
    file,            \* the bytes of the capture file
    written,         \* history: the records the capture's producer wrote
    pos,             \* the file object's read position
    pc,              \* the script's position
    datalink,        \* parse_btsnoop's datalink (v1..v3)
    headers_read,    \* history: record headers read in full by parse_btsnoop
    packets,         \* parse_btsnoop's list
    acl_packets,     \* analyze_packets' list (v2, v3)
    data_packets,    \* l2cap_packets (v1) / data_packets (v2, v3)
    rfcomm_packets,  \* rfcomm_packets (v1, a1, a2) / rfcomm_data (v3)
    dlci12_packets,  \* main's dlci12_packets (a1, a2)
    parsed_packets,  \* main's parsed_packets (a2)
    sessions,        \* main's sessions (a2)
    cmd_stats,       \* main's cmd_stats (a1)
    msg_types,       \* main's msg_types (a2)
    run,             \* which call of main this is: 1 or 2 (a2)
    first_run,       \* history: what the first call of main produced (a2)
    i,               \* index of the running for loop (1-based)
    raised,          \* the function an exception escaped from, or "none"
    vehicle,         \* the simulators' VehicleState (self.vehicle)
    emulator,        \* the ELM327Emulator's settings
    running,         \* self.running / emulator.running
    drive,           \* the drive-simulation threads: the next speed of each
    bus,             \* history: the frames handed to bus.send
    requests,        \* history: how many CAN messages the loop received
    commands,        \* history: how many lines the prompt read
    last,            \* history: the last input handled
    buffer,          \* handle_client's buffer
    stream,          \* the bytes the client has sent and recv has not returned
    received,        \* history: the bytes recv has returned
    sent             \* history: what sock.send / print gave out

vars == <<tool, file, written, pos, pc, datalink, headers_read, packets,
          acl_packets, data_packets, rfcomm_packets, dlci12_packets,
          parsed_packets, sessions, cmd_stats, msg_types, run, first_run,
          i, raised,
          vehicle, emulator, running, drive, bus, requests, commands, last, buffer,
          stream, received, sent>>

\* the variables of the capture scripts, and those of the simulators
capVars == <<tool, file, written, pos, datalink, headers_read, packets, acl_packets,
             data_packets, rfcomm_packets, dlci12_packets, parsed_packets, sessions,
             cmd_stats, msg_types, run, first_run, i>>
simVars == <<vehicle, emulator, running, drive, bus, requests, commands, last, buffer,
             stream, received, sent>>

\* the fields of the VehicleState dataclass that the commands, the
\* simulation and the DTC services read or write, with their defaults
VehicleState ==
    [rpm |-> 850, speed |-> 0, throttle |-> 15, engine_load |-> 25,
     engine_running |-> TRUE, stored_dtcs |-> <<>>, pending_dtcs |-> <<>>,
     mil_on |-> FALSE]

\* the settings of ELM327Emulator that the commands read or write, as
\* __init__ leaves them
ELM327Emulator == [echo |-> TRUE, linefeed |-> TRUE, spaces |-> TRUE, headers |-> FALSE]

(***************************************************************************)
(* The five scripts.                                                       *)
(***************************************************************************)
V1 == "parse_btsnoop.py"
V2 == "parse_btsnoop_v2.py"
V3 == "parse_btsnoop_v3.py"
A1 == "analyze_autel_protocol.py"
A2 == "analyze_autel_protocol_v2.py"
Tools == {V1, V2, V3, A1, A2}

(***************************************************************************)
(* Bounds of the model.                                                    *)
(***************************************************************************)
MaxRecords == 2      \* records in a capture built from the plain records
MaxCut == 3          \* bytes a capture may lose at its end
MaxPayload == 2      \* payload bytes of a generated data-link frame
MaxMessages == 3     \* vendor messages in a capture of several

(***************************************************************************)
(* Python's bytes: slicing clamps, indexing and struct.unpack raise.       *)
(***************************************************************************)
Min(a, b) == IF a < b THEN a ELSE b

\* s[a:b] for 0 <= a, 0 <= b
Slice(s, a, b) ==
    LET lo == Min(a, Len(s))
        hi == Min(b, Len(s))
    IN  IF hi <= lo THEN <<>> ELSE SubSeq(s, lo + 1, hi)

\* s[a:]
SliceFrom(s, a) == Slice(s, a, Len(s))

\* s.startswith(p)
StartsWith(s, p) == Len(s) >= Len(p) /\ SubSeq(s, 1, Len(p)) = p

\* the marker of a raised exception in a computed value
Err == -1

\* s[k], which raises IndexError when k is out of range
ByteAt(s, k) == IF k < Len(s) THEN s[k + 1] ELSE Err

RECURSIVE BigEndian(_)
BigEndian(s) ==
    IF s = <<>> THEN 0 ELSE BigEndian(SubSeq(s, 1, Len(s) - 1)) * 256 + s[Len(s)]

RECURSIVE LittleEndian(_)
LittleEndian(s) ==
    IF s = <<>> THEN 0 ELSE s[1] + 256 * LittleEndian(SubSeq(s, 2, Len(s)))

\* struct.unpack('>I', s)[0], struct.unpack('>Q', s)[0]: struct.error unless
\* s has exactly the format's size
UnpackBE(s, size) == IF Len(s) = size THEN BigEndian(s) ELSE Err
\* struct.unpack('<H', s)[0], struct.unpack('<I', s)[0]
UnpackLE(s, size) == IF Len(s) = size THEN LittleEndian(s) ELSE Err

\* x >> n, x << n, x & 1 on non-negative integers
Shr(x, n) == x \div (2 ^ n)
Shl(x, n) == x * (2 ^ n)
Bit(x, n) == (x \div (2 ^ n)) % 2
\* a | b where the set bits of a and b are disjoint by position: a < 2^n,
\* b a multiple of 2^n
OrDisjoint(a, b) == a + b

(***************************************************************************)
(* The capture container.                                                  *)
(***************************************************************************)
BTSNOOP_MAGIC == <<98, 116, 115, 110, 111, 111, 112, 0>>   \* b'btsnoop\x00'
BTSNOOP_HEADER_SIZE == 16
RECORD_HEADER_SIZE == 24

\* n as `size` big-endian / little-endian bytes (what the capture's producer
\* writes and struct.unpack reads back)
RECURSIVE ToBE(_, _)
ToBE(n, size) == IF size = 0 THEN <<>> ELSE Append(ToBE(n \div 256, size - 1), n % 256)
RECURSIVE ToLE(_, _)
ToLE(n, size) == IF size = 0 THEN <<>> ELSE <<n % 256>> \o ToLE(n \div 256, size - 1)

\* the 16-byte file header: magic, version, datalink
FileHeader(magic, link) == magic \o ToBE(1, 4) \o ToBE(link, 4)

\* one record as written: orig_len, incl_len, flags, drops, timestamp, body
EncodeRecord(r) ==
    ToBE(Len(r.body), 4) \o ToBE(Len(r.body), 4) \o ToBE(r.flags, 4)
        \o ToBE(0, 4) \o ToBE(r.timestamp, 8) \o r.body

RECURSIVE EncodeRecords(_, _)
\* the records of rs in order, the k-th stamped with timestamp k
EncodeRecords(rs, k) ==
    IF rs = <<>> THEN <<>>
    ELSE EncodeRecord([flags |-> rs[1].flags, timestamp |-> k, body |-> rs[1].body])
             \o EncodeRecords(Tail(rs), k + 1)

\* s without its last k bytes
DropLast(s, k) == SubSeq(s, 1, Len(s) - Min(k, Len(s)))

(***************************************************************************)
(* Record bodies a capture may hold.  A data record nests               *)
(*   [type byte] handle+flags(2) acl_len(2) | l2cap_len(2) cid(2) | frame  *)
(* and a data-link frame is  addr control length[1 or 2] payload [fcs].    *)
(***************************************************************************)
\* the length field of a data-link frame: 1-byte form (low bit set) or
\* 2-byte form (low bit clear, the high bits in the second byte)
LengthField(n, twoBytes) ==
    IF twoBytes THEN <<(n % 128) * 2, n \div 128>> ELSE <<(n % 128) * 2 + 1>>

UihFrame(addr, control, declared, twoBytes, payload, fcs) ==
    <<addr, control>> \o LengthField(declared, twoBytes) \o payload \o fcs

\* the packet layers around a frame; the declared lengths are the true ones
\* plus aclDelta, l2Delta
AclBody(prefix, aclDelta, l2Delta, cid, frame) ==
    prefix \o <<1, 32>> \o ToLE(Len(frame) + 4 + aclDelta, 2)
           \o ToLE(Len(frame) + l2Delta, 2) \o ToLE(cid, 2) \o frame

NoPrefix == <<>>          \* flags-only captures (datalink 1001)
H4Acl == <<2>>            \* the HCI packet type byte of an ACL record
Prefixes == {NoPrefix, H4Acl}

SomeBytes == <<85, 170, 65, 66, 67>>
Payload(n) == SubSeq(SomeBytes, 1, n)
Repeat(b, n) == [k \in 1..n |-> b]

GoodFrame == UihFrame(51, 239, 1, FALSE, <<65>>, <<154>>)

\* a sent and a received data record, without and with the type byte
GoodRecords ==
    { [flags |-> 0, body |-> AclBody(NoPrefix, 0, 0, 64, GoodFrame)],
      [flags |-> 1, body |-> AclBody(H4Acl, 0, 0, 64, GoodFrame)] }

\* plain records: the data records, a command, an event
PlainRecords ==
    GoodRecords \cup
    { [flags |-> 2, body |-> AclBody(NoPrefix, 0, 0, 64, GoodFrame)],
      [flags |-> 3, body |-> <<>>] }

\* data records whose packet layers vary
PacketLayerRecords ==
    { [flags |-> 0, body |-> AclBody(p, ad, ld, cid, GoodFrame)] :
        p \in Prefixes, ad \in {-1, 0, 1}, ld \in {-1, 0, 1},
        cid \in {1, 3, 4, 63, 64, 65} }

\* data records whose data-link frame varies in its length field
LengthRecords ==
    { [flags |-> 1,
       body |-> AclBody(p, 0, 0, 64,
                        UihFrame(51, 239, d, two, Payload(n), fcs))] :
        p \in Prefixes, two \in BOOLEAN, fcs \in {<<>>, <<154>>},
        n \in 0..MaxPayload, d \in 0..(MaxPayload + 1) }

\* frames longer than 127 bytes (the second length byte is not zero), frames
\* cut inside their length field, and bodies too short for any header
LongRecords ==
    { [flags |-> 1,
       body |-> AclBody(p, 0, 0, 64,
                        UihFrame(51, 239, d, TRUE, Repeat(65, 130), <<154>>))] :
        p \in Prefixes, d \in {2, 130, 131} }
  \cup
    { [flags |-> 0, body |-> AclBody(p, 0, 0, 64, f)] :
        p \in Prefixes, f \in { <<51>>, <<51, 239>>, <<51, 239, 2>>, <<51, 239, 3>> } }
  \cup
    { [flags |-> 0, body |-> b] :
        b \in { <<2>>, <<2, 1>>, <<2, 1, 32, 9>>, <<1, 32, 9, 0>>, <<2, 1, 32, 9, 0>>,
                <<1, 32, 9, 0, 5, 0, 64>>, <<2, 1, 32, 200, 0, 5, 0, 64, 0>> } }

\* data records whose frame type or address varies
ControlRecords ==
    { [flags |-> 0,
       body |-> AclBody(p, 0, 0, 64, UihFrame(a, c, 1, FALSE, <<65>>, <<154>>))] :
        p \in Prefixes, a \in {51, 11}, c \in {255, 47, 63, 99, 15, 67, 3} }

(***************************************************************************)
(* Vendor messages: magic, eight little-endian 32-bit fields, payload,     *)
(* check value; carried as the payload of a frame on DLCI 12.              *)
(***************************************************************************)
AUTEL_MAGIC == <<85, 85, 170, 170>>       \* b'\x55\x55\xAA\xAA'

VendorMessage(lead, magic, total_len, session_id, status, reserved, payload, crc) ==
    lead \o magic \o ToLE(total_len, 4) \o ToLE(session_id, 4) \o ToLE(7, 4)
         \o ToLE(Len(payload), 4) \o ToLE(session_id, 4) \o ToLE(0, 4)
         \o ToLE(status, 4) \o ToLE(reserved, 4) \o payload \o crc

VendorFrame(addr, msg) ==
    AclBody(NoPrefix, 0, 0, 64,
            UihFrame(addr, 239, Len(msg), Len(msg) > 127, msg, <<154>>))

VendorPayload == <<74, 50, 53, 51, 52>>   \* "J2534"

VendorRecords ==
    { [flags |-> f,
       body |-> VendorFrame(51, VendorMessage(lead, magic, 36 + Len(VendorPayload) + td,
                                              sid, st, 0, VendorPayload, crc))] :
        f \in {0, 1}, lead \in {<<>>, <<0>>}, magic \in {AUTEL_MAGIC, <<85, 85, 170, 171>>},
        td \in {-41, -5, 0, 1, 5}, sid \in {1, 2}, st \in {1},
        crc \in {<<>>, <<1, 2, 3, 4>>} }
  \cup
    { [flags |-> f, body |-> VendorFrame(a, lead \o AUTEL_MAGIC \o tail)] :
        f \in {0, 1}, a \in {51, 11}, lead \in {<<>>, <<0>>},
        tail \in {<<>>, <<44, 0, 0, 0>>} }

\* a message whose header fields are zero but for the total length
ZeroHeaderMessage(total_len, payload, crc) ==
    AUTEL_MAGIC \o ToLE(total_len, 4) \o Repeat(0, 28) \o payload \o crc

\* messages with a zero header, a printable payload ("J254") and a check
\* value: the total length zero too, or the length of header and payload
ScenarioRecords ==
    { [flags |-> f,
       body |-> VendorFrame(51, ZeroHeaderMessage(t, <<74, 50, 53, 52>>, <<1, 2, 3, 4>>))] :
        f \in {0, 1}, t \in {0, 40} }

\* payloads with blanks around the text, with bytes outside [32, 127), with
\* three printable bytes, with the texts and the byte prefix the
\* classifiers look for, and the empty payload
TextPayloads ==
    { <<>>,
      VendorPayload,
      <<32, 74, 50, 53>>,                        \* " J25"
      <<32, 32, 32, 32>>,                        \* four blanks
      <<200, 74, 1, 50, 53, 52, 127>>,           \* "J254" among other bytes
      <<74, 50, 53>>,                            \* "J25"
      <<94, 1, 0, 0>>,                           \* 5E 01 00 00
      <<94, 1, 0, 0>> \o VendorPayload,
      <<65, 85, 84, 69, 76>>,                    \* "AUTEL"
      <<77, 97, 114, 32, 49>>,                   \* "Mar 1"
      <<77, 97, 114, 32>>,                       \* "Mar "
      <<86, 50, 46, 49>>,                        \* "V2.1"
      <<77, 65, 88, 73>>,                        \* "MAXI"
      <<0, 0, 0, 0>> \o VendorPayload,
      <<4, 0, 0, 0>> \o VendorPayload,
      <<0, 0, 0, 0, 77, 97, 114, 32>> }          \* four zero bytes, "Mar "

\* the (status, reserved) pairs the classifiers have rules for, and others
CommandCodes ==
    { <<0, 0>>, <<1, 4>>, <<1, 3>>, <<11, 0>>, <<2, 0>>, <<5, 0>>, <<8, 0>>,
      <<3, 0>>, <<7, 9>>, <<0, 3>>, <<0, 11>>, <<0, 1>>, <<300, 9>> }

\* whole messages, sent and received: every payload under four pairs of
\* codes, every pair of codes with three payloads
TextRecords ==
    { [flags |-> f,
       body |-> VendorFrame(51, VendorMessage(<<>>, AUTEL_MAGIC, 36 + Len(p), 1,
                                              c[1], c[2], p, <<1, 2, 3, 4>>))] :
        f \in {0, 1},
        c \in {<<1, 4>>, <<7, 0>>, <<0, 1>>, <<0, 3>>},
        p \in TextPayloads }
  \cup
    { [flags |-> f,
       body |-> VendorFrame(51, VendorMessage(<<>>, AUTEL_MAGIC, 36 + Len(p), 1,
                                              c[1], c[2], p, <<1, 2, 3, 4>>))] :
        f \in {0, 1},
        c \in CommandCodes,
        p \in { <<>>, VendorPayload, <<94, 1, 0, 0>> } }

\* whole messages of two sessions, sent and received, a message cut after
\* its magic, and a whole message on subchannel 2 (address byte 11)
SessionRecords ==
    { [flags |-> f,
       body |-> VendorFrame(51, VendorMessage(<<>>, AUTEL_MAGIC, 41, sid, 1, 4,
                                              VendorPayload, <<1, 2, 3, 4>>))] :
        f \in {0, 1}, sid \in {1, 2} }
  \cup
    { [flags |-> 0, body |-> VendorFrame(51, AUTEL_MAGIC)],
      [flags |-> 0,
       body |-> VendorFrame(11, VendorMessage(<<>>, AUTEL_MAGIC, 41, 1, 1, 4,
                                              VendorPayload, <<1, 2, 3, 4>>))] }

RichRecords ==
    PacketLayerRecords \cup LengthRecords \cup LongRecords \cup ControlRecords
        \cup VendorRecords \cup ScenarioRecords \cup TextRecords

RECURSIVE SeqsUpTo(_, _)
\* the sequences over S of length at most n
SeqsUpTo(S, n) ==
    IF n = 0 THEN {<<>>}
    ELSE LET shorter == SeqsUpTo(S, n - 1)
         IN  shorter \cup {Append(q, x) : q \in shorter, x \in S}

FileHeaders ==
    { FileHeader(BTSNOOP_MAGIC, 1001), FileHeader(BTSNOOP_MAGIC, 1002),
      FileHeader(<<98, 116, 115, 110, 111, 111, 112, 1>>, 1001) }

\* the captures: a header and plain records, cut short by up to MaxCut bytes;
\* a header alone, cut anywhere; one rich record alone, before or after a
\* plain record; two to MaxMessages records of the sessions
Captures ==
    { [header |-> h, records |-> rs, cut |-> c] :
        h \in FileHeaders, rs \in SeqsUpTo(PlainRecords, MaxRecords), c \in 0..MaxCut }
  \cup
    { [header |-> h, records |-> <<>>, cut |-> c] :
        h \in FileHeaders, c \in {4, 7, 8, 9, 16} }
  \cup
    { [header |-> FileHeader(BTSNOOP_MAGIC, 1001), records |-> rs, cut |-> 0] :
        rs \in UNION { { <<r>>, <<r, g>>, <<g, r>> } :
                        r \in RichRecords, g \in GoodRecords } }
  \cup
    { [header |-> FileHeader(BTSNOOP_MAGIC, 1001), records |-> rs, cut |-> 0] :
        rs \in { q \in SeqsUpTo(SessionRecords, MaxMessages) : Len(q) >= 2 } }

CaptureBytes(c) == DropLast(c.header \o EncodeRecords(c.records, 1), c.cut)

\* before the second call of main there is no first result
NoRun == [parsed_packets |-> <<>>, sessions |-> <<>>, msg_types |-> <<>>]

Init ==
    /\ tool \in Tools
    /\ \E c \in Captures :
        /\ file = CaptureBytes(c)
        /\ written = c.records
    /\ pos = 0
    /\ pc = "parse_btsnoop"
    /\ datalink = 0
    /\ headers_read = 0
    /\ packets = <<>>
    /\ acl_packets = <<>>
    /\ data_packets = <<>>
    /\ rfcomm_packets = <<>>
    /\ dlci12_packets = <<>>
    /\ parsed_packets = <<>>
    /\ sessions = <<>>
    /\ cmd_stats = <<>>
    /\ msg_types = <<>>
    /\ run = 1
    /\ first_run = NoRun
    /\ i = 1
    /\ raised = "none"
    /\ vehicle = VehicleState
    /\ emulator = ELM327Emulator
    /\ running = FALSE
    /\ drive = <<>>
    /\ bus = <<>>
    /\ requests = 0
    /\ commands = 0
    /\ last = <<>>
    /\ buffer = ""
    /\ stream = ""
    /\ received = ""
    /\ sent = <<>>

(***************************************************************************)
(* parse_btsnoop: the same function in the five scripts, which differ in   *)
(* the header fields they unpack and in the fields of a packet.            *)
(***************************************************************************)
\* f.read(n): the bytes from the read position, fewer at end of file
Read(n) == Slice(file, pos, pos + n)

\* where main goes with the list parse_btsnoop returned
AfterParse ==
    CASE tool = V1 -> "extract_l2cap_data"
      [] tool \in {V2, V3} -> "analyze_packets"
      [] tool \in {A1, A2} -> "extract_rfcomm_data"

\* an exception that nothing catches ends the script with a traceback
Raise(function) ==
    /\ pc' = "traceback"
    /\ raised' = function

\* a reader that does not look at the magic
BadMagic_ignored(header) == FALSE
\* `if not header.startswith(BTSNOOP_MAGIC)`
BadMagic(header) == ~StartsWith(header, BTSNOOP_MAGIC)

\* "RX" if (flags & 1) else "TX"
Direction(flags) == IF Bit(flags, 0) = 1 THEN "RX" ELSE "TX"

\* 'EVENT' if control and received, 'COMMAND' if control, else 'ACL'
PacketType(flags) ==
    IF Bit(flags, 1) = 1
    THEN (IF Bit(flags, 0) = 1 THEN "EVENT" ELSE "COMMAND")
    ELSE "ACL"

\* the dict parse_btsnoop appends, per script
MakePacket(num, flags, timestamp, data) ==
    CASE tool = V1 ->
            [num |-> num, timestamp |-> timestamp, direction |-> Direction(flags),
             is_command |-> (Bit(flags, 1) = 1), data |-> data, flags |-> flags]
      [] tool = V2 ->
            [num |-> num, timestamp |-> timestamp, direction |-> Direction(flags),
             flags |-> flags, data |-> data]
      [] tool = V3 ->
            [num |-> num, timestamp |-> timestamp, direction |-> Direction(flags),
             type |-> PacketType(flags), flags |-> flags, data |-> data]
      [] tool \in {A1, A2} ->
            [timestamp |-> timestamp, direction |-> Direction(flags),
             type |-> PacketType(flags), data |-> data]

\* `if len(rec_header) < RECORD_HEADER_SIZE: break`
HeaderShort(rec_header) == Len(rec_header) < RECORD_HEADER_SIZE

\* a reader that keeps a record whose body is cut short
BodyShort_never(data, incl_len) == FALSE
\* `if len(data) < incl_len: break`
BodyShort(data, incl_len) == Len(data) < incl_len

\* a reader that puts each new packet first
AppendPacket_prepends(list, packet) == <<packet>> \o list
\* the list after `packets.append(packet)`
AppendPacket(list, packet) == Append(list, packet)

\* open the file, read and check the file header
parse_btsnoop_header ==
    /\ pc = "parse_btsnoop"
    /\ LET header == Read(BTSNOOP_HEADER_SIZE)
           version == UnpackBE(Slice(header, 8, 12), 4)
           link == UnpackBE(Slice(header, 12, 16), 4)
       IN  /\ pos' = pos + Len(header)
           /\ IF BadMagic(header)
              THEN \* return [] (v3: return [], 0)
                   /\ pc' = AfterParse
                   /\ UNCHANGED <<datalink, raised>>
              ELSE IF tool \in {V1, V2, V3} /\ (version = Err \/ link = Err)
              THEN \* struct.error from struct.unpack('>I', header[8:12])
                   /\ Raise("parse_btsnoop")
                   /\ UNCHANGED datalink
              ELSE /\ pc' = "read_record"
                   /\ datalink' = IF tool \in {V1, V2, V3} THEN link ELSE datalink
                   /\ UNCHANGED raised
    /\ UNCHANGED <<simVars, run, first_run, msg_types, tool, file, written, headers_read, packets, acl_packets,
                   data_packets, rfcomm_packets, dlci12_packets, parsed_packets,
                   sessions, cmd_stats, i>>

\* one pass of `while True:`
parse_btsnoop_record ==
    /\ pc = "read_record"
    /\ LET rec_header == Read(RECORD_HEADER_SIZE)
           incl_len == UnpackBE(Slice(rec_header, 4, 8), 4)
           flags == UnpackBE(Slice(rec_header, 8, 12), 4)
           timestamp == UnpackBE(Slice(rec_header, 16, 24), 8)
           data == Slice(file, pos + Len(rec_header), pos + Len(rec_header) + incl_len)
       IN  IF HeaderShort(rec_header)
           THEN /\ pos' = pos + Len(rec_header)
                /\ pc' = AfterParse
                /\ UNCHANGED <<headers_read, packets>>
           ELSE /\ headers_read' = headers_read + 1
                /\ pos' = pos + Len(rec_header) + Len(data)
                /\ IF BodyShort(data, incl_len)
                   THEN /\ pc' = AfterParse
                        /\ UNCHANGED packets
                   ELSE /\ packets' = AppendPacket(packets,
                                          MakePacket(Len(packets) + 1, flags, timestamp, data))
                        /\ UNCHANGED pc
    /\ UNCHANGED <<simVars, run, first_run, msg_types, tool, file, written, datalink, acl_packets, data_packets,
                   rfcomm_packets, dlci12_packets, parsed_packets, sessions,
                   cmd_stats, i, raised>>

(***************************************************************************)
(* What one pass of a for loop does with its item: it appends one entry,   *)
(* skips the item (`continue`, or a failed `if`), or raises.               *)
(***************************************************************************)
Emit(entry) == [k |-> "emit", entry |-> entry]
Skip == [k |-> "skip"]
Raises == [k |-> "raise"]

HCI_ACL_DATA == 2
DYNAMIC_CID == 64            \* 0x0040

\* x & 0x0FFF
Mask12(x) == x % 4096
\* control & 0xEF: bit 4 (poll/final) cleared
MaskPF(control) == control - 16 * Bit(control, 4)

\* a framer that takes every control byte for UIH
IsUih_any(control) == TRUE
\* `(control & 0xEF) == 0xEF`: an UIH frame
IsUih(control) == MaskPF(control) = 239

\* a framer that reads every length field in the 1-byte form
UihLength_one_byte(frame) ==
    LET length_byte == ByteAt(frame, 2)
    IN  IF length_byte = Err THEN Raises
        ELSE [k |-> "length", payload_len |-> Shr(length_byte, 1), payload_start |-> 3]

\* the length field of an UIH frame: the payload's length and start, or a
\* skipped frame when the 2-byte form lacks its second byte
UihLength(frame) ==
    LET length_byte == ByteAt(frame, 2)
    IN  IF length_byte = Err THEN Raises
        ELSE IF Bit(length_byte, 0) = 1
        THEN [k |-> "length", payload_len |-> Shr(length_byte, 1), payload_start |-> 3]
        ELSE IF Len(frame) < 4 THEN Skip
        ELSE IF ByteAt(frame, 3) = Err THEN Raises
        ELSE [k |-> "length",
              payload_len |-> OrDisjoint(Shr(length_byte, 1), Shl(ByteAt(frame, 3), 7)),
              payload_start |-> 4]

\* a framer that lets an empty payload through
PayloadPresent_or_empty(frame, payload_start, payload_len) ==
    Len(frame) >= payload_start + payload_len
\* `len(l2cap_data) >= payload_start + payload_len and payload_len > 0`
PayloadPresent(frame, payload_start, payload_len) ==
    Len(frame) >= payload_start + payload_len /\ payload_len > 0

(***************************************************************************)
(* parse_btsnoop.py                                                        *)
(***************************************************************************)
\* extract_l2cap_data, one packet
v1_extract_l2cap(pkt) ==
    LET data == pkt.data
        pkt_type == ByteAt(data, 0)
        handle_flags == UnpackLE(Slice(data, 1, 3), 2)
        acl_len == UnpackLE(Slice(data, 3, 5), 2)
        l2cap_payload == Slice(data, 5, 5 + acl_len)
        l2cap_len == UnpackLE(Slice(l2cap_payload, 0, 2), 2)
        l2cap_cid == UnpackLE(Slice(l2cap_payload, 2, 4), 2)
    IN  IF Len(data) < 1 THEN Skip
        ELSE IF pkt_type = Err THEN Raises
        ELSE IF ~(pkt_type = HCI_ACL_DATA /\ Len(data) > 5) THEN Skip
        ELSE IF handle_flags = Err \/ acl_len = Err THEN Raises
        ELSE IF ~(Len(data) >= 5 + acl_len /\ acl_len >= 4) THEN Skip
        ELSE IF l2cap_len = Err \/ l2cap_cid = Err THEN Raises
        ELSE IF ~(Len(l2cap_payload) >= 4 + l2cap_len) THEN Skip
        ELSE Emit([num |-> pkt.num, direction |-> pkt.direction,
                   handle |-> Mask12(handle_flags), cid |-> l2cap_cid,
                   payload |-> Slice(l2cap_payload, 4, 4 + l2cap_len)])

\* extract_rfcomm_data, one L2CAP packet
v1_extract_rfcomm(pkt) ==
    LET payload == pkt.payload
        addr == ByteAt(payload, 0)
        control == ByteAt(payload, 1)
        length == UihLength(payload)
    IN  IF pkt.cid <= 3 THEN Skip
        ELSE IF Len(payload) < 3 THEN Skip
        ELSE IF addr = Err \/ control = Err THEN Raises
        ELSE IF ~IsUih(control) THEN Skip
        ELSE IF length.k # "length" THEN length
        ELSE IF ~(Len(payload) >= length.payload_start + length.payload_len) THEN Skip
        ELSE IF ~(length.payload_len > 0) THEN Skip
        ELSE Emit([num |-> pkt.num, direction |-> pkt.direction,
                   dlci |-> Shr(addr, 2),
                   data |-> Slice(payload, length.payload_start,
                                  length.payload_start + length.payload_len)])

(***************************************************************************)
(* parse_btsnoop_v2.py, parse_btsnoop_v3.py                                *)
(***************************************************************************)
\* analyze_packets of v2: the packets whose first byte is the ACL type
v2_is_acl(pkt) ==
    LET data == pkt.data
    IN  IF Len(data) < 1 THEN Skip
        ELSE IF ByteAt(data, 0) = Err THEN Raises
        ELSE IF ByteAt(data, 0) = HCI_ACL_DATA THEN Emit(pkt) ELSE Skip

\* analyze_packets of v3: the packets typed 'ACL' from their flags
v3_is_acl(pkt) == IF pkt.type = "ACL" THEN Emit(pkt) ELSE Skip

\* extract_acl_data of v2, one packet: the ACL header follows the type byte
v2_extract_acl(pkt) ==
    LET data == pkt.data
        handle_flags == UnpackLE(Slice(data, 1, 3), 2)
        acl_len == UnpackLE(Slice(data, 3, 5), 2)
        acl_payload == Slice(data, 5, 5 + acl_len)
        l2cap_len == UnpackLE(Slice(acl_payload, 0, 2), 2)
        l2cap_cid == UnpackLE(Slice(acl_payload, 2, 4), 2)
    IN  IF Len(data) < 5 THEN Skip
        ELSE IF handle_flags = Err \/ acl_len = Err THEN Raises
        ELSE IF ~(Len(acl_payload) >= 4) THEN Skip
        ELSE IF l2cap_len = Err \/ l2cap_cid = Err THEN Raises
        ELSE Emit([num |-> pkt.num, direction |-> pkt.direction,
                   handle |-> Mask12(handle_flags), cid |-> l2cap_cid,
                   pb_flag |-> Shr(handle_flags, 12) % 4,
                   l2cap_data |-> SliceFrom(acl_payload, 4)])

\* extract_acl_data of v3, one packet: the body starts with the ACL header
v3_extract_acl(pkt) ==
    LET data == pkt.data
        handle_flags == UnpackLE(Slice(data, 0, 2), 2)
        acl_len == UnpackLE(Slice(data, 2, 4), 2)
        acl_payload == Slice(data, 4, 4 + acl_len)
        l2cap_len == UnpackLE(Slice(acl_payload, 0, 2), 2)
        l2cap_cid == UnpackLE(Slice(acl_payload, 2, 4), 2)
    IN  IF Len(data) < 4 THEN Skip
        ELSE IF handle_flags = Err \/ acl_len = Err THEN Raises
        ELSE IF ~(Len(acl_payload) >= 4) THEN Skip
        ELSE IF l2cap_len = Err \/ l2cap_cid = Err THEN Raises
        ELSE Emit([num |-> pkt.num, direction |-> pkt.direction,
                   handle |-> Mask12(handle_flags), cid |-> l2cap_cid,
                   pb_flag |-> Shr(handle_flags, 12) % 4,
                   l2cap_len |-> l2cap_len,
                   l2cap_data |-> SliceFrom(acl_payload, 4)])

\* `dynamic_packets = [p for p in data_packets if p['cid'] >= 0x0040]`
v3_is_dynamic(pkt) == pkt.cid >= DYNAMIC_CID

\* analyze_rfcomm_packets, one dynamic-channel packet
v3_analyze_rfcomm(pkt) ==
    LET data == pkt.l2cap_data
        addr == ByteAt(data, 0)
        control == ByteAt(data, 1)
        length == UihLength(data)
    IN  IF Len(data) < 3 THEN Skip
        ELSE IF addr = Err \/ control = Err THEN Raises
        ELSE IF ~IsUih(control) THEN Skip
        ELSE IF length.k # "length" THEN length
        ELSE IF ~(Len(data) >= length.payload_start + length.payload_len) THEN Skip
        ELSE IF ~(length.payload_len > 0) THEN Skip
        ELSE Emit([num |-> pkt.num, direction |-> pkt.direction,
                   dlci |-> Shr(addr, 2),
                   data |-> Slice(data, length.payload_start,
                                  length.payload_start + length.payload_len)])

(***************************************************************************)
(* analyze_autel_protocol.py, analyze_autel_protocol_v2.py                 *)
(***************************************************************************)
\* an extraction without the guard on the body's length
a2_too_short_unchecked(data) == FALSE
\* `if len(data) < 8: continue`
a2_too_short(data) == Len(data) < 8

\* `if len(data) < 4 + acl_len: continue`
a2_segment_cut(data, acl_len) == Len(data) < 4 + acl_len

\* extract_rfcomm_data of analyze_autel_protocol_v2.py, one packet
a2_extract_rfcomm(pkt) ==
    LET data == pkt.data
        acl_len == UnpackLE(Slice(data, 2, 4), 2)
        acl_payload == Slice(data, 4, 4 + acl_len)
        l2cap_cid == UnpackLE(Slice(acl_payload, 2, 4), 2)
        l2cap_data == SliceFrom(acl_payload, 4)
        addr == ByteAt(l2cap_data, 0)
        control == ByteAt(l2cap_data, 1)
        length == UihLength(l2cap_data)
    IN  IF pkt.type # "ACL" THEN Skip
        ELSE IF a2_too_short(data) THEN Skip
        ELSE IF acl_len = Err THEN Raises
        ELSE IF a2_segment_cut(data, acl_len) THEN Skip
        ELSE IF Len(acl_payload) < 4 THEN Skip
        ELSE IF l2cap_cid = Err THEN Raises
        ELSE IF l2cap_cid < DYNAMIC_CID \/ Len(l2cap_data) < 3 THEN Skip
        ELSE IF addr = Err \/ control = Err THEN Raises
        ELSE IF ~IsUih(control) THEN Skip
        ELSE IF length.k # "length" THEN length
        ELSE IF ~PayloadPresent(l2cap_data, length.payload_start, length.payload_len)
        THEN Skip
        ELSE Emit([timestamp |-> pkt.timestamp, direction |-> pkt.direction,
                   dlci |-> Shr(addr, 2),
                   data |-> Slice(l2cap_data, length.payload_start,
                                  length.payload_start + length.payload_len)])

\* extract_rfcomm_data of analyze_autel_protocol.py, one packet
a1_extract_rfcomm(pkt) ==
    LET data == pkt.data
        acl_len == UnpackLE(Slice(data, 2, 4), 2)
        acl_payload == Slice(data, 4, 4 + acl_len)
        l2cap_cid == UnpackLE(Slice(acl_payload, 2, 4), 2)
        l2cap_data == SliceFrom(acl_payload, 4)
        addr == ByteAt(l2cap_data, 0)
        control == ByteAt(l2cap_data, 1)
        length == UihLength(l2cap_data)
    IN  IF pkt.type # "ACL" THEN Skip
        ELSE IF Len(data) < 8 THEN Skip
        ELSE IF acl_len = Err THEN Raises
        ELSE IF Len(data) < 4 + acl_len THEN Skip
        ELSE IF Len(acl_payload) < 4 THEN Skip
        ELSE IF l2cap_cid = Err THEN Raises
        ELSE IF l2cap_cid < DYNAMIC_CID THEN Skip
        ELSE IF Len(l2cap_data) < 3 THEN Skip
        ELSE IF addr = Err \/ control = Err THEN Raises
        ELSE IF ~IsUih(control) THEN Skip
        ELSE IF length.k # "length" THEN length
        ELSE IF ~PayloadPresent(l2cap_data, length.payload_start, length.payload_len)
        THEN Skip
        ELSE Emit([timestamp |-> pkt.timestamp, direction |-> pkt.direction,
                   dlci |-> Shr(addr, 2),
                   data |-> Slice(l2cap_data, length.payload_start,
                                  length.payload_start + length.payload_len)])

\* a filter that keeps the payloads of every subchannel
IsDlci12_any_subchannel(pkt) == pkt.dlci \in 0..63
\* `dlci12_packets = [p for p in rfcomm_packets if p['dlci'] == 12]`
IsDlci12(pkt) == pkt.dlci = 12

\* the bytes of s in [32, 127), in order: decode('ascii', errors='ignore')
\* drops the bytes above 127 and the join drops the other non-printable ones
\* a projection that keeps the byte 127 too
IsPrintable_through_del(b) == 32 <= b /\ b <= 127
\* `32 <= ord(c) < 127`
IsPrintable(b) == 32 <= b /\ b < 127
Printable(s) == SelectSeq(s, IsPrintable)

\* str.strip() of a string of printable characters: the blanks at both ends go
RECURSIVE Strip(_)
Strip(s) ==
    IF s = <<>> THEN s
    ELSE IF s[1] = 32 THEN Strip(Tail(s))
    ELSE IF s[Len(s)] = 32 THEN Strip(SubSeq(s, 1, Len(s) - 1))
    ELSE s

\* a magic search that takes a received message to start at offset 0
a2_magic_offset_zero(data, direction) ==
    IF direction = "TX"
    THEN (IF ~StartsWith(data, AUTEL_MAGIC) THEN Err ELSE 0)
    ELSE IF StartsWith(data, <<0>> \o AUTEL_MAGIC) THEN 0
    ELSE IF StartsWith(data, AUTEL_MAGIC) THEN 0
    ELSE Err

\* the magic search of parse_autel_packet: the offset of the magic, or Err
\* when the data is no vendor message
a2_magic_offset(data, direction) ==
    IF direction = "TX"
    THEN (IF ~StartsWith(data, AUTEL_MAGIC) THEN Err ELSE 0)
    ELSE IF StartsWith(data, <<0>> \o AUTEL_MAGIC) THEN 1
    ELSE IF StartsWith(data, AUTEL_MAGIC) THEN 0
    ELSE Err

\* a key the result dict does not hold
NoBytes == <<>>

\* data.hex(): two hexadecimal digits per byte, the high one first
Hex(data) ==
    [k \in 1..(2 * Len(data)) |->
        IF k % 2 = 1 THEN data[(k + 1) \div 2] \div 16 ELSE data[k \div 2] % 16]

\* a parser that ends the payload 4 bytes after it starts, whatever the
\* total length
a2_payload_end_fixed(offset, total_len) == offset + 40
\* `payload_end = offset + 4 + total_len - 4  # minus CRC`
a2_payload_end(offset, total_len) == offset + 4 + total_len - 4

\* a parser that starts the payload at byte 36 of the data, wherever the
\* magic is
a2_payload_start_absolute(offset) == 36
\* `payload_start = offset + 36`
a2_payload_start(offset) == offset + 36

\* parse_autel_packet
parse_autel_packet(data, direction) ==
    LET offset == a2_magic_offset(data, direction)
        F(k) == UnpackLE(Slice(data, offset + k, offset + k + 4), 4)
        total_len == F(4)
        payload_start == a2_payload_start(offset)
        payload_end == a2_payload_end(offset, total_len)
        sliced == payload_end > payload_start /\ payload_end <= Len(data)
        payload == Slice(data, payload_start, payload_end)
        has_crc == sliced /\ payload_end + 4 <= Len(data)
        crc == UnpackLE(Slice(data, payload_end, payload_end + 4), 4)
        printable == Printable(payload)
        has_ascii == sliced /\ Len(printable) > 3
        blank == [valid |-> FALSE, direction |-> direction, short |-> FALSE,
                  error |-> FALSE, offset |-> 0,
                  total_len |-> 0, session_id |-> 0, msg_counter |-> 0,
                  payload_len |-> 0, flags |-> 0, status |-> 0, reserved |-> 0,
                  has_fields |-> FALSE, has_raw |-> FALSE, raw |-> NoBytes,
                  has_payload |-> FALSE, payload |-> NoBytes,
                  has_crc |-> FALSE, crc |-> 0,
                  has_ascii |-> FALSE, ascii |-> NoBytes]
    IN  IF offset = Err THEN blank
        ELSE IF Len(data) < offset + 40
        THEN [blank EXCEPT !.valid = TRUE, !.short = TRUE, !.offset = offset]
        ELSE IF \E k \in {4, 8, 12, 16, 20, 24, 28, 32} : F(k) = Err
        THEN \* `except Exception as e: result['error'] = str(e)`
             [blank EXCEPT !.valid = TRUE, !.error = TRUE, !.offset = offset]
        ELSE IF has_crc /\ crc = Err
        THEN [blank EXCEPT !.valid = TRUE, !.error = TRUE, !.offset = offset,
                           !.has_fields = TRUE,
                           !.total_len = total_len, !.session_id = F(8),
                           !.msg_counter = F(12), !.payload_len = F(16),
                           !.flags = F(24), !.status = F(28), !.reserved = F(32),
                           !.has_payload = TRUE, !.payload = payload]
        ELSE [blank EXCEPT !.valid = TRUE, !.offset = offset,
                           !.has_fields = TRUE,
                           !.total_len = total_len, !.session_id = F(8),
                           !.msg_counter = F(12), !.payload_len = F(16),
                           !.flags = F(24), !.status = F(28), !.reserved = F(32),
                           !.has_payload = sliced,
                           !.payload = IF sliced THEN payload ELSE NoBytes,
                           !.has_crc = has_crc,
                           !.crc = IF has_crc THEN crc ELSE 0,
                           !.has_ascii = has_ascii,
                           !.ascii = IF has_ascii THEN Strip(printable) ELSE NoBytes]

\* a collecting loop that keeps the short messages
a2_keeps_short(parsed) == parsed.valid
\* `if parsed['valid'] and not parsed.get('short')`
a2_keeps(parsed) == parsed.valid /\ ~parsed.short

\* a grouping that keeps only the last message of a session
SessionsAppend_replaces(table, session_id, parsed) ==
    [k \in DOMAIN table \cup {session_id} |->
        IF k = session_id THEN <<parsed>> ELSE table[k]]
\* `sessions[session_id].append(parsed)` on a defaultdict(list)
SessionsAppend(table, session_id, parsed) ==
    IF session_id \in DOMAIN table
    THEN [table EXCEPT ![session_id] = Append(@, parsed)]
    ELSE [k \in DOMAIN table \cup {session_id} |->
            IF k = session_id THEN <<parsed>> ELSE table[k]]

\* the magic search of analyze_autel_packet: the offset just after the
\* magic, or Err when the data is no vendor message
a1_magic_offset(data, direction) ==
    IF direction = "TX"
    THEN (IF ~StartsWith(data, AUTEL_MAGIC) THEN Err ELSE 4)
    ELSE IF Len(data) < 5 THEN Err
    ELSE IF Slice(data, 0, 1) = <<0>> /\ Slice(data, 1, 5) = AUTEL_MAGIC THEN 5
    ELSE IF StartsWith(data, AUTEL_MAGIC) THEN 4
    ELSE Err

\* analyze_autel_packet
analyze_autel_packet(data, direction) ==
    LET offset == a1_magic_offset(data, direction)
        F(k) == UnpackLE(Slice(data, offset + k, offset + k + 4), 4)
        has_payload == Len(data) > offset + 36
        payload == SliceFrom(data, offset + 36)
        printable == Printable(payload)
        has_ascii == has_payload /\ payload # <<>> /\ Len(printable) > 3
        blank == [valid |-> FALSE, short |-> FALSE, error |-> FALSE, offset |-> 0,
                  has_raw |-> FALSE, raw |-> NoBytes, has_fields |-> FALSE,
                  total_len |-> 0, msg_id |-> NoBytes, payload_len |-> 0,
                  flags |-> 0, cmd1 |-> 0, cmd2 |-> 0,
                  has_payload |-> FALSE, payload |-> NoBytes,
                  has_ascii |-> FALSE, ascii |-> NoBytes]
    IN  IF offset = Err THEN blank
        ELSE IF Len(data) < offset + 36
        THEN [blank EXCEPT !.valid = TRUE, !.short = TRUE, !.offset = offset,
                           !.has_raw = TRUE, !.raw = Hex(data)]
        ELSE IF \E k \in {0, 12, 24, 28, 32} : F(k) = Err
        THEN [blank EXCEPT !.valid = TRUE, !.error = TRUE, !.offset = offset]
        ELSE [blank EXCEPT !.valid = TRUE, !.offset = offset, !.has_fields = TRUE,
                           !.total_len = F(0),
                           !.msg_id = Slice(data, offset + 4, offset + 12),
                           !.payload_len = F(12), !.flags = F(24),
                           !.cmd1 = F(28), !.cmd2 = F(32),
                           !.has_payload = has_payload,
                           !.payload = IF has_payload THEN payload ELSE NoBytes,
                           !.has_ascii = has_ascii,
                           !.ascii = IF has_ascii THEN Strip(printable) ELSE NoBytes]

\* cmd_stats[key]['count'] += 1; cmd_stats[key][direction.lower()] += 1, on a
\* defaultdict whose entries start at zero
CmdStatsCount(table, key, direction) ==
    LET old == IF key \in DOMAIN table THEN table[key]
               ELSE [count |-> 0, tx |-> 0, rx |-> 0]
        new == [count |-> old.count + 1,
                tx |-> old.tx + (IF direction = "TX" THEN 1 ELSE 0),
                rx |-> old.rx + (IF direction = "RX" THEN 1 ELSE 0)]
    IN  [k \in DOMAIN table \cup {key} |-> IF k = key THEN new ELSE table[k]]

(***************************************************************************)
(* The classifiers. A tag is a string; a group of rules none of which      *)
(* returned is NoMatch.                                                    *)
(***************************************************************************)
NoMatch == "no match"

\* `sub in s`, on bytes and on str
Contains(s, sub) ==
    \E k \in 0..(Len(s) - Len(sub)) : Slice(s, k, k + Len(sub)) = sub

HexDigit(d) == SubSeq("0123456789ABCDEF", d + 1, d + 1)

RECURSIVE HexDigits(_)
\* the hexadecimal digits of n, upper case, without leading zeros
HexDigits(n) ==
    IF n < 16 THEN HexDigit(n) ELSE HexDigits(n \div 16) \o HexDigit(n % 16)

\* f"{n:02X}": at least two digits
FormatHex02(n) == IF n < 16 THEN "0" \o HexDigits(n) ELSE HexDigits(n)

\* identify_message_type, `if pkt_data.get('ascii'):` and its four tests
a2_ascii_rule(pkt_data, direction) ==
    LET ascii_content == pkt_data.ascii
    IN  IF ~pkt_data.has_ascii \/ ascii_content = <<>> THEN NoMatch
        ELSE IF Contains(ascii_content, <<74, 50, 53, 51, 52>>)          \* 'J2534'
        THEN (IF direction = "RX" THEN "DEVICE_ID_RESPONSE" ELSE "DEVICE_ID_REQUEST")
        ELSE IF Contains(ascii_content, <<65, 85, 84, 69, 76>>)          \* 'AUTEL'
        THEN "VENDOR_ID_RESPONSE"
        ELSE IF \/ Contains(ascii_content, <<77, 97, 114, 32>>)          \* 'Mar '
                \/ Contains(ascii_content, <<86, 50, 46>>)               \* 'V2.'
        THEN "FIRMWARE_VERSION_RESPONSE"
        ELSE IF Contains(ascii_content, <<77, 65, 88, 73>>)              \* 'MAXI'
        THEN "DEVICE_NAME"
        ELSE NoMatch

\* the two tests on the payload in the other order: first word, then prefix
a2_payload_rule_word_first(pkt_data) ==
    LET payload == IF pkt_data.has_payload THEN pkt_data.payload ELSE <<>>
    IN  IF payload = <<>> THEN NoMatch
        ELSE IF Len(payload) >= 4 /\ UnpackLE(Slice(payload, 0, 4), 4) = 350
        THEN "PASSTHRU_RESPONSE"
        ELSE IF StartsWith(payload, <<94, 1, 0, 0>>) THEN "PASSTHRU_OPEN_RESPONSE"
        ELSE NoMatch
\* identify_message_type, `if payload:` and its two tests
a2_payload_rule(pkt_data) ==
    LET payload == IF pkt_data.has_payload THEN pkt_data.payload ELSE <<>>
    IN  IF payload = <<>> THEN NoMatch
        ELSE IF StartsWith(payload, <<94, 1, 0, 0>>) THEN "PASSTHRU_OPEN_RESPONSE"
        ELSE IF Len(payload) >= 4 /\ UnpackLE(Slice(payload, 0, 4), 4) = 350
        THEN "PASSTHRU_RESPONSE"
        ELSE NoMatch

\* identify_message_type, `if direction == 'TX': ... else: ...`
a2_code_rule(status, reserved, direction) ==
    IF direction = "TX"
    THEN CASE status = 0 /\ reserved = 0 -> "CONNECT_REQUEST"
           [] status = 1 /\ reserved = 4 -> "PASSTHRU_OPEN"
           [] status = 1 /\ reserved = 3 -> "PASSTHRU_CLOSE"
           [] status = 11 -> "GET_VERSION"
           [] status = 2 -> "READ_DATA"
           [] status = 5 -> "WRITE_DATA"
           [] status = 8 -> "START_MSG_FILTER"
           [] status = 3 -> "DISCONNECT"
           [] OTHER -> NoMatch
    ELSE IF status = 0 THEN "SUCCESS_RESPONSE" ELSE NoMatch

\* a classifier whose last rule returns the empty string
a2_default_tag_empty(status, reserved) == ""
\* `return f"CMD_{status:02X}_{reserved:02X}"`
a2_default_tag(status, reserved) ==
    "CMD_" \o FormatHex02(status) \o "_" \o FormatHex02(reserved)

\* a classifier that looks at status and reserved before the content
identify_message_type_codes_first(pkt_data, direction) ==
    IF a2_code_rule(pkt_data.status, pkt_data.reserved, direction) # NoMatch
    THEN a2_code_rule(pkt_data.status, pkt_data.reserved, direction)
    ELSE IF a2_ascii_rule(pkt_data, direction) # NoMatch
    THEN a2_ascii_rule(pkt_data, direction)
    ELSE IF a2_payload_rule(pkt_data) # NoMatch
    THEN a2_payload_rule(pkt_data)
    ELSE a2_default_tag(pkt_data.status, pkt_data.reserved)
\* identify_message_type: the first rule that matches returns
identify_message_type(pkt_data, direction) ==
    IF a2_ascii_rule(pkt_data, direction) # NoMatch
    THEN a2_ascii_rule(pkt_data, direction)
    ELSE IF a2_payload_rule(pkt_data) # NoMatch
    THEN a2_payload_rule(pkt_data)
    ELSE IF a2_code_rule(pkt_data.status, pkt_data.reserved, direction) # NoMatch
    THEN a2_code_rule(pkt_data.status, pkt_data.reserved, direction)
    ELSE a2_default_tag(pkt_data.status, pkt_data.reserved)

\* classify_command, the tests on cmd1 and cmd2
a1_code_rule(cmd1, cmd2) ==
    CASE cmd1 = 0 /\ cmd2 = 0 -> "STATUS/ACK"
      [] cmd1 = 1 /\ cmd2 = 4 -> "CONNECT_REQUEST"
      [] cmd1 = 11 -> "GET_VERSION"
      [] cmd1 = 3 -> "DISCONNECT"
      [] OTHER -> NoMatch

\* classify_command, `if payload:` and its two tests: str(payload) holds
\* 'J2534' when the bytes do, and the test for "Mar " is on the hex digits
a1_payload_rule(payload) ==
    IF payload = <<>> THEN NoMatch
    ELSE IF Contains(payload, <<74, 50, 53, 51, 52>>) THEN "J2534_ID"
    ELSE IF Contains(Hex(payload), <<4, 13, 6, 1, 7, 2, 2, 0>>) THEN "FIRMWARE_INFO"
    ELSE NoMatch

\* `return f"CMD_{cmd1:02X}_{cmd2:02X}"`
a1_default_tag(cmd1, cmd2) ==
    "CMD_" \o FormatHex02(cmd1) \o "_" \o FormatHex02(cmd2)

\* classify_command
classify_command(cmd1, cmd2, payload) ==
    IF a1_code_rule(cmd1, cmd2) # NoMatch THEN a1_code_rule(cmd1, cmd2)
    ELSE IF a1_payload_rule(payload) # NoMatch THEN a1_payload_rule(payload)
    ELSE a1_default_tag(cmd1, cmd2)

\* `cmd_stats[key]['type'] = cmd_type`
CmdStatsType(table, key, cmd_type) ==
    [k \in DOMAIN table |->
        IF k = key
        THEN [count |-> table[k].count, tx |-> table[k].tx, rx |-> table[k].rx,
              type |-> cmd_type]
        ELSE table[k]]

\* msg_types[msg_type]['count'] += 1; msg_types[msg_type][direction.lower()]
\* += 1, on a defaultdict whose entries start at zero
MsgTypesCount(table, msg_type, direction) ==
    LET old == IF msg_type \in DOMAIN table THEN table[msg_type]
               ELSE [count |-> 0, tx |-> 0, rx |-> 0]
    IN  [k \in DOMAIN table \cup {msg_type} |->
            IF k = msg_type
            THEN [count |-> old.count + 1,
                  tx |-> old.tx + (IF direction = "TX" THEN 1 ELSE 0),
                  rx |-> old.rx + (IF direction = "RX" THEN 1 ELSE 0)]
            ELSE table[k]]

(***************************************************************************)
(* The loops of the scripts, one pass per step.                            *)
(***************************************************************************)
\* one pass of `for pkt in src:` in function `name`, which builds the list
\* `out`; after the last pass the script goes on at `next`
ForEach(name, src, Body(_), out, next) ==
    /\ pc = name
    /\ IF i > Len(src)
       THEN /\ pc' = next
            /\ i' = 1
            /\ out' = out
            /\ UNCHANGED raised
       ELSE LET res == Body(src[i])
            IN  CASE res.k = "emit" ->
                        /\ out' = Append(out, res.entry)
                        /\ i' = i + 1
                        /\ UNCHANGED <<pc, raised>>
                  [] res.k = "skip" ->
                        /\ out' = out
                        /\ i' = i + 1
                        /\ UNCHANGED <<pc, raised>>
                  [] res.k = "raise" ->
                        /\ Raise(name)
                        /\ out' = out
                        /\ UNCHANGED i

v1_extract_l2cap_data ==
    /\ tool = V1
    /\ ForEach("extract_l2cap_data", packets, v1_extract_l2cap, data_packets,
               "extract_rfcomm_data")
    /\ UNCHANGED <<simVars, run, first_run, msg_types, tool, file, written, pos, datalink, headers_read, packets,
                   acl_packets, rfcomm_packets, dlci12_packets, parsed_packets,
                   sessions, cmd_stats>>

v1_extract_rfcomm_data ==
    /\ tool = V1
    /\ ForEach("extract_rfcomm_data", data_packets, v1_extract_rfcomm,
               rfcomm_packets, "done")
    /\ UNCHANGED <<simVars, run, first_run, msg_types, tool, file, written, pos, datalink, headers_read, packets,
                   acl_packets, data_packets, dlci12_packets, parsed_packets,
                   sessions, cmd_stats>>

v2_analyze_packets ==
    /\ tool = V2
    /\ ForEach("analyze_packets", packets, v2_is_acl, acl_packets, "extract_acl_data")
    /\ UNCHANGED <<simVars, run, first_run, msg_types, tool, file, written, pos, datalink, headers_read, packets,
                   data_packets, rfcomm_packets, dlci12_packets, parsed_packets,
                   sessions, cmd_stats>>

\* main calls extract_acl_data `if acl_packets:`; what follows it only prints
v2_extract_acl_data ==
    /\ tool = V2
    /\ ForEach("extract_acl_data", acl_packets, v2_extract_acl, data_packets, "done")
    /\ UNCHANGED <<simVars, run, first_run, msg_types, tool, file, written, pos, datalink, headers_read, packets,
                   acl_packets, rfcomm_packets, dlci12_packets, parsed_packets,
                   sessions, cmd_stats>>

v3_analyze_packets ==
    /\ tool = V3
    /\ ForEach("analyze_packets", packets, v3_is_acl, acl_packets, "extract_acl_data")
    /\ UNCHANGED <<simVars, run, first_run, msg_types, tool, file, written, pos, datalink, headers_read, packets,
                   data_packets, rfcomm_packets, dlci12_packets, parsed_packets,
                   sessions, cmd_stats>>

v3_extract_acl_data ==
    /\ tool = V3
    /\ ForEach("extract_acl_data", acl_packets, v3_extract_acl, data_packets,
               "analyze_rfcomm_packets")
    /\ UNCHANGED <<simVars, run, first_run, msg_types, tool, file, written, pos, datalink, headers_read, packets,
                   acl_packets, rfcomm_packets, dlci12_packets, parsed_packets,
                   sessions, cmd_stats>>

\* analyze_rfcomm_packets loops over the dynamic-channel packets only
v3_rfcomm_item(pkt) == IF v3_is_dynamic(pkt) THEN v3_analyze_rfcomm(pkt) ELSE Skip

v3_analyze_rfcomm_packets ==
    /\ tool = V3
    /\ ForEach("analyze_rfcomm_packets", data_packets, v3_rfcomm_item,
               rfcomm_packets, "done")
    /\ UNCHANGED <<simVars, run, first_run, msg_types, tool, file, written, pos, datalink, headers_read, packets,
                   acl_packets, data_packets, dlci12_packets, parsed_packets,
                   sessions, cmd_stats>>

a1_extract_rfcomm_data ==
    /\ tool = A1
    /\ ForEach("extract_rfcomm_data", packets, a1_extract_rfcomm, rfcomm_packets,
               "dlci12")
    /\ UNCHANGED <<simVars, run, first_run, msg_types, tool, file, written, pos, datalink, headers_read, packets,
                   acl_packets, data_packets, dlci12_packets, parsed_packets,
                   sessions, cmd_stats>>

a2_extract_rfcomm_data ==
    /\ tool = A2
    /\ ForEach("extract_rfcomm_data", packets, a2_extract_rfcomm, rfcomm_packets,
               "dlci12")
    /\ UNCHANGED <<simVars, run, first_run, msg_types, tool, file, written, pos, datalink, headers_read, packets,
                   acl_packets, data_packets, dlci12_packets, parsed_packets,
                   sessions, cmd_stats>>

\* main of both analyzers: the list comprehension that keeps DLCI 12
main_dlci12 ==
    /\ tool \in {A1, A2}
    /\ pc = "dlci12"
    /\ dlci12_packets' = SelectSeq(rfcomm_packets, IsDlci12)
    /\ pc' = "main_loop"
    /\ UNCHANGED <<simVars, run, first_run, msg_types, tool, file, written, pos, datalink, headers_read, packets,
                   acl_packets, data_packets, rfcomm_packets, parsed_packets,
                   sessions, cmd_stats, i, raised>>

\* main of analyze_autel_protocol.py, one pass of `for i, pkt in enumerate(...)`
a1_main_loop ==
    /\ tool = A1
    /\ pc = "main_loop"
    /\ IF i > Len(dlci12_packets)
       THEN /\ pc' = "done"
            /\ i' = 1
            /\ UNCHANGED cmd_stats
       ELSE LET pkt == dlci12_packets[i]
                analysis == analyze_autel_packet(pkt.data, pkt.direction)
            IN  /\ i' = i + 1
                /\ UNCHANGED pc
                /\ IF ~analysis.valid \/ analysis.short
                   THEN UNCHANGED cmd_stats
                   ELSE LET cmd_type == classify_command(analysis.cmd1, analysis.cmd2,
                                                         analysis.payload)
                            key == <<analysis.cmd1, analysis.cmd2>>
                        IN  cmd_stats' = CmdStatsType(
                                CmdStatsCount(cmd_stats, key, pkt.direction),
                                key, cmd_type)
    /\ UNCHANGED <<simVars, run, first_run, msg_types, tool, file, written, pos, datalink, headers_read, packets,
                   acl_packets, data_packets, rfcomm_packets, dlci12_packets,
                   parsed_packets, sessions, raised>>

\* main of analyze_autel_protocol_v2.py, one pass of `for pkt in dlci12_packets:`
a2_main_loop ==
    /\ tool = A2
    /\ pc = "main_loop"
    /\ IF i > Len(dlci12_packets)
       THEN /\ pc' = "msg_types"
            /\ i' = 1
            /\ UNCHANGED <<parsed_packets, sessions>>
       ELSE LET pkt == dlci12_packets[i]
                parsed == parse_autel_packet(pkt.data, pkt.direction)
                kept == [p |-> parsed, timestamp |-> pkt.timestamp, raw |-> pkt.data]
            IN  /\ i' = i + 1
                /\ UNCHANGED pc
                /\ IF a2_keeps(parsed)
                   THEN /\ parsed_packets' = Append(parsed_packets, kept)
                        /\ sessions' = SessionsAppend(sessions, parsed.session_id, kept)
                   ELSE UNCHANGED <<parsed_packets, sessions>>
    /\ UNCHANGED <<simVars, run, first_run, msg_types, tool, file, written, pos, datalink, headers_read, packets,
                   acl_packets, data_packets, rfcomm_packets, dlci12_packets,
                   cmd_stats, raised>>

\* main of analyze_autel_protocol_v2.py, one pass of `for pkt in
\* parsed_packets:` that counts the message types (the loop before it, over
\* parsed_packets[:60], prints and keeps nothing)
a2_msg_types ==
    /\ tool = A2
    /\ pc = "msg_types"
    /\ IF i > Len(parsed_packets)
       THEN /\ pc' = "done"
            /\ i' = 1
            /\ UNCHANGED msg_types
       ELSE LET pkt == parsed_packets[i]
                msg_type == identify_message_type(pkt.p, pkt.p.direction)
            IN  /\ i' = i + 1
                /\ UNCHANGED pc
                /\ msg_types' = MsgTypesCount(msg_types, msg_type, pkt.p.direction)
    /\ UNCHANGED <<simVars, run, first_run, tool, file, written, pos, datalink,
                   headers_read, packets, acl_packets, data_packets, rfcomm_packets,
                   dlci12_packets, parsed_packets, sessions, cmd_stats, raised>>

\* what a call of main leaves in the module for the next call: the module
\* has four names, all bound once to constants, and main's lists and
\* tables are local
main_again_keeps_msg_types(table) == table
\* the msg_types a call of main starts with: a new defaultdict
main_again_msg_types(table) == <<>>

\* main of analyze_autel_protocol_v2.py is called again on the same file
\* after it returned: every local starts anew
main_again ==
    /\ tool = A2
    /\ pc = "done"
    /\ run = 1
    /\ run' = 2
    /\ first_run' = [parsed_packets |-> parsed_packets, sessions |-> sessions,
                     msg_types |-> msg_types]
    /\ pos' = 0
    /\ pc' = "parse_btsnoop"
    /\ datalink' = 0
    /\ headers_read' = 0
    /\ packets' = <<>>
    /\ rfcomm_packets' = <<>>
    /\ dlci12_packets' = <<>>
    /\ parsed_packets' = <<>>
    /\ sessions' = <<>>
    /\ msg_types' = main_again_msg_types(msg_types)
    /\ i' = 1
    /\ UNCHANGED <<simVars, tool, file, written, acl_packets, data_packets,
                   cmd_stats, raised>>

\* the script has ended: normally, or with a traceback
Finished == pc \in {"done", "traceback"}

Terminated ==
    /\ Finished
    /\ UNCHANGED vars

Next ==
    \/ parse_btsnoop_header
    \/ parse_btsnoop_record
    \/ v1_extract_l2cap_data
    \/ v1_extract_rfcomm_data
    \/ v2_analyze_packets
    \/ v2_extract_acl_data
    \/ v3_analyze_packets
    \/ v3_extract_acl_data
    \/ v3_analyze_rfcomm_packets
    \/ a1_extract_rfcomm_data
    \/ a2_extract_rfcomm_data
    \/ main_dlci12
    \/ a1_main_loop
    \/ a2_main_loop
    \/ a2_msg_types
    \/ main_again

Spec == Init /\ [][Next]_vars

(***************************************************************************)
(* The two simulators: tools/ecu_simulator/ecu_simulator.py and            *)
(* tools/bluetooth_emulator/elm327_emulator.py.  A behaviour of SpecSim is *)
(* one run of one of them: the ECU simulator on a CAN bus with its input,  *)
(* update and drive threads, the ELM327 emulator serving one client, or    *)
(* the ELM327 emulator in its interactive mode.                            *)
(***************************************************************************)
ECU_SIMULATOR == "ecu_simulator.py"
ELM_CLIENT == "elm327_emulator.py handle_client"
ELM_INTERACTIVE == "elm327_emulator.py interactive_mode"
Simulators == {ECU_SIMULATOR, ELM_CLIENT, ELM_INTERACTIVE}

\* how many commands the input thread (the interactive prompt) reads
MaxCommands == 3
\* how many CAN requests the message loop receives
MaxRequests == 3
\* how many drive-simulation threads are started
MaxDriveThreads == 1

\* str.upper() on the letters of the ASCII alphabet
UPPER ==
    [a |-> "A", b |-> "B", c |-> "C", d |-> "D", e |-> "E", f |-> "F", g |-> "G",
     h |-> "H", i |-> "I", j |-> "J", k |-> "K", l |-> "L", m |-> "M", n |-> "N",
     o |-> "O", p |-> "P", q |-> "Q", r |-> "R", s |-> "S", t |-> "T", u |-> "U",
     v |-> "V", w |-> "W", x |-> "X", y |-> "Y", z |-> "Z"]
RECURSIVE Upper(_)
Upper(s) ==
    IF s = "" THEN ""
    ELSE LET c == SubSeq(s, 1, 1)
         IN  (IF c \in DOMAIN UPPER THEN UPPER[c] ELSE c) \o Upper(SubSeq(s, 2, Len(s)))

\* the value of a hexadecimal digit
HexValue ==
    ("0" :> 0) @@ ("1" :> 1) @@ ("2" :> 2) @@ ("3" :> 3) @@ ("4" :> 4) @@
    ("5" :> 5) @@ ("6" :> 6) @@ ("7" :> 7) @@ ("8" :> 8) @@ ("9" :> 9) @@
    ("A" :> 10) @@ ("B" :> 11) @@ ("C" :> 12) @@ ("D" :> 13) @@ ("E" :> 14) @@
    ("F" :> 15) @@ ("a" :> 10) @@ ("b" :> 11) @@ ("c" :> 12) @@ ("d" :> 13) @@
    ("e" :> 14) @@ ("f" :> 15)
IsHexText(s) == s # "" /\ \A k \in 1..Len(s) : SubSeq(s, k, k) \in DOMAIN HexValue
RECURSIVE HexToInt(_)
\* int(s, 16) of a string of hexadecimal digits
HexToInt(s) ==
    IF s = "" THEN 0
    ELSE 16 * HexToInt(SubSeq(s, 1, Len(s) - 1)) + HexValue[SubSeq(s, Len(s), Len(s))]

\* _encode_dtc of both simulators: (high, low) of a code such as 'P0300'
encode_dtc(dtc) ==
    IF Len(dtc) # 5 THEN <<0, 0>>
    ELSE LET letter == Upper(SubSeq(dtc, 1, 1))
             category == CASE letter = "P" -> 0 [] letter = "C" -> 1
                           [] letter = "B" -> 2 [] letter = "U" -> 3 [] OTHER -> 0
             code == IF IsHexText(SubSeq(dtc, 2, 5)) THEN HexToInt(SubSeq(dtc, 2, 5))
                     ELSE 0
         IN  <<category * 64 + ((code \div 256) % 64), code % 256>>

\* the lines typed at the ECU simulator, after `input().strip().lower()` and
\* `cmd.split()`; the number after 'r' and 's' is given as int() reads it
EcuCommands ==
    { <<"r", 2500>>, <<"r", 9000>>, <<"s", 60>>, <<"d", "p0300">>, <<"d", "c0123">>,
      <<"d", "u3abc">>, <<"c">>, <<"m">>, <<"e">>, <<"drive">>, <<"idle">> }

Clamp(lo, hi, v) == IF v < lo THEN lo ELSE IF v > hi THEN hi ELSE v

\* _process_command: the vehicle after a typed command ('t' writes a field
\* that is not kept here; 'status' and 'help' print; 'drive' starts a thread)
ecu_process_command(v, parts) ==
    LET command == parts[1]
    IN  IF command = "r" /\ Len(parts) > 1
        THEN [v EXCEPT !.rpm = Clamp(0, 8000, parts[2])]
        ELSE IF command = "s" /\ Len(parts) > 1
        THEN [v EXCEPT !.speed = Clamp(0, 255, parts[2])]
        ELSE IF command = "d" /\ Len(parts) > 1
        THEN (IF \E k \in 1..Len(v.stored_dtcs) : v.stored_dtcs[k] = Upper(parts[2])
              THEN v
              ELSE [v EXCEPT !.stored_dtcs = Append(@, Upper(parts[2])),
                             !.mil_on = TRUE])
        ELSE IF command = "c"
        THEN [v EXCEPT !.stored_dtcs = <<>>, !.pending_dtcs = <<>>, !.mil_on = FALSE]
        ELSE IF command = "m"
        THEN [v EXCEPT !.mil_on = ~@]
        ELSE IF command = "e"
        THEN (IF v.engine_running
              THEN [v EXCEPT !.engine_running = FALSE, !.rpm = 0, !.speed = 0]
              ELSE [v EXCEPT !.engine_running = TRUE])
        ELSE IF command = "idle"
        THEN [v EXCEPT !.rpm = 850, !.speed = 0, !.throttle = 15, !.engine_load = 25]
        ELSE v

\* one pass of `for speed in range(0, 80, 5):` in drive()
ecu_drive(v, speed) ==
    [v EXCEPT !.speed = speed, !.rpm = 800 + speed * 30,
              !.throttle = 20 + speed \div 2, !.engine_load = 25 + speed \div 2]

\* values of random.randint(-30, 30)
RpmJitter == {-30, 30}

\* _update_simulation (both simulators), on the fields kept here
update_simulation(v, jitter) ==
    IF v.engine_running
    THEN (IF v.speed = 0 THEN [v EXCEPT !.rpm = 800 + jitter] ELSE v)
    ELSE [v EXCEPT !.rpm = 0]

\* the data of the CAN messages the message loop receives: Mode 03, 04, 07,
\* a service the simulator does not know and a message of one byte
EcuRequests ==
    { <<1, 3, 0, 0, 0, 0, 0, 0>>, <<1, 4, 0, 0, 0, 0, 0, 0>>,
      <<1, 7, 0, 0, 0, 0, 0, 0>>, <<1, 10, 0, 0, 0, 0, 0, 0>>, <<1>> }

\* the bytes _handle_service_03 / _handle_service_07 hand to _send_response
ecu_dtc_response(dtcs, sid) ==
    LET dtc_count == Len(dtcs)
        shown == SubSeq(dtcs, 1, IF dtc_count < 3 THEN dtc_count ELSE 3)
        pairs == [k \in 1..Len(shown) |-> encode_dtc(shown[k])]
        flat == [k \in 1..(2 * Len(shown)) |-> pairs[(k + 1) \div 2][2 - (k % 2)]]
    IN  IF dtc_count = 0 THEN <<2, sid, 0>>
        ELSE <<2 + dtc_count * 2, sid, dtc_count>> \o flat
ecu_handle_service_03(v) == ecu_dtc_response(v.stored_dtcs, 67)
ecu_handle_service_07(v) == ecu_dtc_response(v.pending_dtcs, 71)

\* _handle_service_04: what it leaves of the vehicle
ecu_handle_service_04(v) ==
    [v EXCEPT !.stored_dtcs = <<>>, !.pending_dtcs = <<>>, !.mil_on = FALSE]

\* _send_response: `data + bytes(8 - len(data))` is the frame sent; bytes()
\* of a negative count raises ValueError
ecu_send_response(data) ==
    IF Len(data) > 8 THEN [raises |-> TRUE, frame |-> <<>>]
    ELSE [raises |-> FALSE, frame |-> data \o [k \in 1..(8 - Len(data)) |-> 0]]

\* _process_request: the data handed to _send_response, or <<>> when the
\* request is dropped
ecu_process_request(v, data) ==
    IF Len(data) < 2 THEN <<>>
    ELSE IF data[2] = 3 THEN ecu_handle_service_03(v)
    ELSE IF data[2] = 4 THEN <<1, 68>>
    ELSE IF data[2] = 7 THEN ecu_handle_service_07(v)
    ELSE <<>>

\* the input thread: one line read and handed to _process_command
ecu_input_loop ==
    /\ tool = ECU_SIMULATOR
    /\ running
    /\ commands < MaxCommands
    /\ \E parts \in EcuCommands :
          /\ vehicle' = ecu_process_command(vehicle, parts)
          /\ drive' = IF parts[1] = "drive" /\ Len(drive) < MaxDriveThreads
                      THEN Append(drive, 0) ELSE drive
    /\ commands' = commands + 1
    /\ UNCHANGED <<capVars, pc, raised, emulator, running, bus, requests, last,
                   buffer, stream, received, sent>>

\* a drive-simulation thread: one pass of its loop, or its end
ecu_drive_sim ==
    /\ tool = ECU_SIMULATOR
    /\ \E k \in 1..Len(drive) :
          IF drive[k] >= 80 \/ ~running
          THEN /\ drive' = SubSeq(drive, 1, k - 1) \o SubSeq(drive, k + 1, Len(drive))
               /\ UNCHANGED vehicle
          ELSE /\ vehicle' = ecu_drive(vehicle, drive[k])
               /\ drive' = [drive EXCEPT ![k] = @ + 5]
    /\ UNCHANGED <<capVars, pc, raised, emulator, running, bus, requests, commands,
                   last, buffer, stream, received, sent>>

\* the update thread: one pass of `while self.running:` in _update_loop
ecu_update_loop ==
    /\ tool = ECU_SIMULATOR
    /\ running
    /\ \E jitter \in RpmJitter : vehicle' = update_simulation(vehicle, jitter)
    /\ UNCHANGED <<capVars, pc, raised, emulator, running, drive, bus, requests,
                   commands, last, buffer, stream, received, sent>>

\* _message_loop: one message received and processed.  An exception other
\* than can.CanError leaves the loop and start(); main's finally calls stop()
ecu_message_loop ==
    /\ tool = ECU_SIMULATOR
    /\ running
    /\ pc = "_message_loop"
    /\ requests < MaxRequests
    /\ \E data \in EcuRequests :
          LET response == ecu_process_request(vehicle, data)
          IN  /\ requests' = requests + 1
              /\ last' = data
              /\ vehicle' = IF Len(data) >= 2 /\ data[2] = 4
                            THEN ecu_handle_service_04(vehicle) ELSE vehicle
              /\ IF response = <<>>
                 THEN UNCHANGED <<bus, pc, raised, running>>
                 ELSE IF ecu_send_response(response).raises
                 THEN /\ pc' = "traceback"
                      /\ raised' = "_send_response"
                      /\ running' = FALSE
                      /\ UNCHANGED bus
                 ELSE /\ bus' = Append(bus, ecu_send_response(response).frame)
                      /\ UNCHANGED <<pc, raised, running>>
    /\ UNCHANGED <<capVars, emulator, drive, commands, buffer, stream, received,
                   sent>>

\* the characters str.strip() and str.split() take for blanks
WhiteSpace == {" ", "\t", "\n", "\r", "\f"}
RECURSIVE StripText(_)
\* str.strip()
StripText(s) ==
    IF s = "" THEN s
    ELSE IF SubSeq(s, 1, 1) \in WhiteSpace THEN StripText(SubSeq(s, 2, Len(s)))
    ELSE IF SubSeq(s, Len(s), Len(s)) \in WhiteSpace
    THEN StripText(SubSeq(s, 1, Len(s) - 1))
    ELSE s
\* str.startswith()
StartsWithText(s, p) == Len(s) >= Len(p) /\ SubSeq(s, 1, Len(p)) = p
\* where the first carriage return of s is, or 0
FirstCR(s) ==
    IF \E k \in 1..Len(s) : SubSeq(s, k, k) = "\r"
    THEN CHOOSE k \in 1..Len(s) :
            /\ SubSeq(s, k, k) = "\r"
            /\ \A m \in 1..(k - 1) : SubSeq(s, m, m) # "\r"
    ELSE 0
RECURSIVE SplitText(_)
\* str.split(): the words of s between blanks
SplitText(s) ==
    LET t == StripText(s)
        blanks == {k \in 1..Len(t) : SubSeq(t, k, k) \in WhiteSpace}
        cut == CHOOSE k \in blanks : \A m \in blanks : k <= m
    IN  IF t = "" THEN <<>>
        ELSE IF blanks = {} THEN <<t>>
        ELSE <<SubSeq(t, 1, cut - 1)>> \o SplitText(SubSeq(t, cut + 1, Len(t)))

RECURSIVE JoinHex(_, _)
\* " ".join(f"{b:02X}" for b in bs), or "".join(...) when spaces are off
JoinHex(bs, spaces) ==
    IF bs = <<>> THEN ""
    ELSE IF Len(bs) = 1 THEN FormatHex02(bs[1])
    ELSE FormatHex02(bs[1]) \o (IF spaces THEN " " ELSE "") \o JoinHex(Tail(bs), spaces)

\* _mode_03 / _mode_07: the count and up to six codes
elm_dtc_response(e, dtcs, sid) ==
    LET shown == SubSeq(dtcs, 1, IF Len(dtcs) < 6 THEN Len(dtcs) ELSE 6)
        pairs == [k \in 1..Len(shown) |-> encode_dtc(shown[k])]
        flat == [k \in 1..(2 * Len(shown)) |-> pairs[(k + 1) \div 2][2 - (k % 2)]]
    IN  IF dtcs = <<>> THEN JoinHex(<<sid, 0>>, e.spaces)
        ELSE JoinHex(<<sid, Len(dtcs)>> \o flat, e.spaces)
mode_03(e, v) == elm_dtc_response(e, v.stored_dtcs, 67)
mode_07(e, v) == elm_dtc_response(e, v.pending_dtcs, 71)

\* a Mode 04 that clears the two lists and leaves the MIL as it is
mode_04_keeps_mil(v) == [v EXCEPT !.stored_dtcs = <<>>, !.pending_dtcs = <<>>]
\* _mode_04: what it leaves of the vehicle (it returns "44")
mode_04(v) == [v EXCEPT !.stored_dtcs = <<>>, !.pending_dtcs = <<>>, !.mil_on = FALSE]

\* _mode_01 for PID 01, the monitor status, through _format_response (the
\* commands drawn ask for no other PID)
mode_01(e, v, pid) ==
    IF pid = 1
    THEN (IF e.headers THEN "7E8 " ELSE "")
         \o JoinHex(<<65, 1, (IF v.mil_on THEN 128 ELSE 0) + Len(v.stored_dtcs),
                      7, 229, 0>>, e.spaces)
    ELSE "NO DATA"

\* _handle_obd_command: the vehicle it leaves and the text it returns (of
\* Mode 09 no PID is drawn)
handle_obd_command(e, v, cmd) ==
    IF Len(cmd) < 2 THEN [emulator |-> e, vehicle |-> v, result |-> "?"]
    ELSE IF HexToInt(SubSeq(cmd, 1, 2)) = 1
    THEN [emulator |-> e, vehicle |-> v,
          result |-> IF Len(cmd) >= 4 THEN mode_01(e, v, HexToInt(SubSeq(cmd, 3, 4)))
                     ELSE "?"]
    ELSE IF HexToInt(SubSeq(cmd, 1, 2)) = 3
    THEN [emulator |-> e, vehicle |-> v, result |-> mode_03(e, v)]
    ELSE IF HexToInt(SubSeq(cmd, 1, 2)) = 4
    THEN [emulator |-> e, vehicle |-> mode_04(v), result |-> "44"]
    ELSE IF HexToInt(SubSeq(cmd, 1, 2)) = 7
    THEN [emulator |-> e, vehicle |-> v, result |-> mode_07(e, v)]
    ELSE IF HexToInt(SubSeq(cmd, 1, 2)) = 9 /\ Len(cmd) < 4
    THEN [emulator |-> e, vehicle |-> v, result |-> "?"]
    ELSE [emulator |-> e, vehicle |-> v, result |-> "NO DATA"]

\* _handle_at_command on the stripped text: the settings it leaves and the
\* text it returns (RV, whose answer is the randomly moving voltage, is not
\* among the commands drawn; protocol and timeout are written and never read)
handle_at_command(e, v, cmd) ==
    IF cmd \in {"Z", "WS"}
    THEN [emulator |-> ELM327Emulator, vehicle |-> v, result |-> "\r\rELM327 v1.5\r"]
    ELSE IF cmd = "I" THEN [emulator |-> e, vehicle |-> v, result |-> "ELM327 v1.5"]
    ELSE IF cmd = "@1"
    THEN [emulator |-> e, vehicle |-> v, result |-> "OpenDiag ELM327 Emulator"]
    ELSE IF cmd \in {"E0", "E1"}
    THEN [emulator |-> [e EXCEPT !.echo = (cmd = "E1")], vehicle |-> v, result |-> "OK"]
    ELSE IF cmd \in {"L0", "L1"}
    THEN [emulator |-> [e EXCEPT !.linefeed = (cmd = "L1")], vehicle |-> v,
          result |-> "OK"]
    ELSE IF cmd \in {"S0", "S1"}
    THEN [emulator |-> [e EXCEPT !.spaces = (cmd = "S1")], vehicle |-> v,
          result |-> "OK"]
    ELSE IF cmd \in {"H0", "H1"}
    THEN [emulator |-> [e EXCEPT !.headers = (cmd = "H1")], vehicle |-> v,
          result |-> "OK"]
    ELSE IF cmd = "DP"
    THEN [emulator |-> e, vehicle |-> v, result |-> "AUTO, ISO 15765-4 (CAN 11/500)"]
    ELSE IF cmd = "DPN" THEN [emulator |-> e, vehicle |-> v, result |-> "6"]
    ELSE IF cmd = "IGN"
    THEN [emulator |-> e, vehicle |-> v,
          result |-> IF v.engine_running THEN "ON" ELSE "OFF"]
    ELSE [emulator |-> e, vehicle |-> v, result |-> "OK"]

\* the characters of '0123456789ABCDEF'
UpperHexDigits == DOMAIN HexValue \ {"a", "b", "c", "d", "e", "f"}

\* process_command between the echo and the formatting: AT command, OBD
\* command or "?"
elm_dispatch(e, v, cmd) ==
    IF StartsWithText(cmd, "AT")
    THEN handle_at_command(e, v, StripText(SubSeq(cmd, 3, Len(cmd))))
    ELSE IF \A k \in 1..Len(cmd) : SubSeq(cmd, k, k) \in UpperHexDigits
    THEN handle_obd_command(e, v, cmd)
    ELSE [emulator |-> e, vehicle |-> v, result |-> "?"]

\* a response whose echo follows the setting the command left
elm_response_echo_after(e, cmd, r) ==
    IF cmd = ""
    THEN [emulator |-> e, vehicle |-> r.vehicle, result |-> "", response |-> ">"]
    ELSE [emulator |-> r.emulator, vehicle |-> r.vehicle, result |-> r.result,
          response |-> (IF r.emulator.echo THEN cmd \o "\r" ELSE "") \o r.result
                          \o (IF r.emulator.linefeed THEN "\r\n>" ELSE "\r>")]
\* process_command around the dispatch: ">" alone for an empty command;
\* else the echo, decided before the command ran (e), the result and the
\* line end, decided after it (r.emulator)
elm_response(e, cmd, r) ==
    IF cmd = ""
    THEN [emulator |-> e, vehicle |-> r.vehicle, result |-> "", response |-> ">"]
    ELSE [emulator |-> r.emulator, vehicle |-> r.vehicle, result |-> r.result,
          response |-> (IF e.echo THEN cmd \o "\r" ELSE "") \o r.result
                          \o (IF r.emulator.linefeed THEN "\r\n>" ELSE "\r>")]

\* process_command on `cmd.strip().upper()`
elm_process(e, v, cmd) ==
    elm_response(e, cmd,
                 IF cmd = "" THEN [emulator |-> e, vehicle |-> v, result |-> ""]
                 ELSE elm_dispatch(e, v, cmd))
\* process_command
process_command(e, v, text) == elm_process(e, v, Upper(StripText(text)))

\* str.lower() on the letters of the ASCII alphabet
RECURSIVE Lower(_)
Lower(s) ==
    IF s = "" THEN ""
    ELSE LET c == SubSeq(s, 1, 1)
             small == {x \in DOMAIN UPPER : UPPER[x] = c}
         IN  (IF small = {} THEN c ELSE CHOOSE x \in small : TRUE)
                \o Lower(SubSeq(s, 2, Len(s)))

\* a client handler that starts each recv with an empty buffer
handle_client_buffer_fresh(buffer_, data) == data
\* `buffer += data.decode('ascii', errors='ignore')`, on ASCII data
handle_client_buffer(buffer_, data) == buffer_ \o data

RECURSIVE handle_client_commands(_, _, _, _)
RECURSIVE handle_client_command(_, _, _, _, _)
RECURSIVE handle_client_send(_, _, _)
\* `while '\r' in buffer:` of handle_client: every whole command of the
\* buffer, in order
handle_client_commands(e, v, buffer_, out) ==
    IF FirstCR(buffer_) = 0
    THEN [emulator |-> e, vehicle |-> v, buffer |-> buffer_, sent |-> out]
    ELSE handle_client_command(e, v, SubSeq(buffer_, 1, FirstCR(buffer_) - 1),
                               SubSeq(buffer_, FirstCR(buffer_) + 1, Len(buffer_)), out)
\* `if cmd:` an empty command is skipped
handle_client_command(e, v, cmd, rest, out) ==
    IF cmd = "" THEN handle_client_commands(e, v, rest, out)
    ELSE handle_client_send(process_command(e, v, cmd), rest, out)
\* `sock.send(response.encode('ascii'))`, and the loop goes on
handle_client_send(r, rest, out) ==
    handle_client_commands(r.emulator, r.vehicle, rest, Append(out, r.response))

\* the commands a client sends, each ended by a carriage return, and the
\* starts of a command that may follow them
ClientCommands ==
    { "ATE0", "ate1", "atl0", " atz ", "03", "\n04", " ", "", "hello" }
ClientFragments == { "", "AT", "0" }
\* how many commands a client sends
MaxLines == 2
RECURSIVE JoinLines(_)
JoinLines(q) == IF q = <<>> THEN "" ELSE Head(q) \o "\r" \o JoinLines(Tail(q))
ClientStreams ==
    { JoinLines(q) \o f : q \in SeqsUpTo(ClientCommands, MaxLines), f \in ClientFragments }

\* what one recv leaves, r being the pass over the buffer it fills
handle_client_leaves(r) ==
    /\ emulator' = r.emulator
    /\ vehicle' = r.vehicle
    /\ buffer' = r.buffer
    /\ sent' = r.sent

\* handle_client: one recv of some bytes of the stream, and the commands the
\* buffer then holds
handle_client_recv ==
    /\ tool = ELM_CLIENT
    /\ running
    /\ pc = "handle_client"
    /\ stream # ""
    /\ \E n \in 1..Len(stream) :
          /\ stream' = SubSeq(stream, n + 1, Len(stream))
          /\ received' = received \o SubSeq(stream, 1, n)
          /\ handle_client_leaves(
                handle_client_commands(emulator, vehicle,
                    handle_client_buffer(buffer, SubSeq(stream, 1, n)), sent))
    /\ UNCHANGED <<capVars, pc, raised, running, drive, bus, requests, commands,
                   last>>

\* handle_client: recv returns no data when the client has closed
handle_client_closed ==
    /\ tool = ELM_CLIENT
    /\ running
    /\ pc = "handle_client"
    /\ stream = ""
    /\ pc' = "done"
    /\ UNCHANGED <<capVars, raised, simVars>>

\* update_loop of the servers: one pass
elm_update_loop ==
    /\ tool = ELM_CLIENT
    /\ running
    /\ pc = "handle_client"
    /\ \E jitter \in RpmJitter : vehicle' = update_simulation(vehicle, jitter)
    /\ UNCHANGED <<capVars, pc, raised, emulator, running, drive, bus, requests,
                   commands, last, buffer, stream, received, sent>>

\* the lines typed at the interactive prompt
InteractiveLines ==
    { "set dtc p0300", "SET DTC P0301", "set dtc", "clear", "03", "04", "07", "0101",
      "ats0", "status", "", "quit" }

\* interactive_mode, the line not being one of its own: process_command
\* and print
interactive_print(r) ==
    [emulator |-> r.emulator, vehicle |-> r.vehicle, printed |-> <<r.response>>,
     quit |-> FALSE]

\* one pass of `while True:` in interactive_mode on the stripped line: the
\* settings and vehicle it leaves and what it prints of process_command (of
\* 'set' only the parameter dtc is drawn)
interactive_line(e, v, cmd) ==
    IF cmd = "" \/ Lower(cmd) = "status"
    THEN [emulator |-> e, vehicle |-> v, printed |-> <<>>, quit |-> FALSE]
    ELSE IF Lower(cmd) = "quit"
    THEN [emulator |-> e, vehicle |-> v, printed |-> <<>>, quit |-> TRUE]
    ELSE IF StartsWithText(Lower(cmd), "set ")
    THEN [emulator |-> e,
          vehicle |-> IF Len(SplitText(cmd)) >= 3 /\ Lower(SplitText(cmd)[2]) = "dtc"
                      THEN [v EXCEPT !.stored_dtcs = Append(@, Upper(SplitText(cmd)[3])),
                                     !.mil_on = TRUE]
                      ELSE v,
          printed |-> <<>>, quit |-> FALSE]
    ELSE IF Lower(cmd) = "clear"
    THEN [emulator |-> e, vehicle |-> [v EXCEPT !.stored_dtcs = <<>>, !.mil_on = FALSE],
          printed |-> <<>>, quit |-> FALSE]
    ELSE interactive_print(process_command(e, v, cmd))
interactive_mode(e, v, line) == interactive_line(e, v, StripText(line))

\* what one pass of the prompt leaves
interactive_leaves(r) ==
    /\ emulator' = r.emulator
    /\ vehicle' = r.vehicle
    /\ sent' = sent \o r.printed
    /\ pc' = IF r.quit THEN "done" ELSE pc

elm_interactive_mode ==
    /\ tool = ELM_INTERACTIVE
    /\ pc = "interactive_mode"
    /\ commands < MaxCommands
    /\ \E line \in InteractiveLines :
          /\ interactive_leaves(interactive_mode(emulator, vehicle, line))
          /\ last' = line
    /\ commands' = commands + 1
    /\ UNCHANGED <<capVars, raised, running, drive, bus, requests, buffer, stream,
                   received>>

InitSim ==
    /\ tool \in Simulators
    /\ file = <<>>
    /\ written = <<>>
    /\ pos = 0
    /\ pc = (CASE tool = ECU_SIMULATOR -> "_message_loop"
               [] tool = ELM_CLIENT -> "handle_client"
               [] tool = ELM_INTERACTIVE -> "interactive_mode")
    /\ datalink = 0
    /\ headers_read = 0
    /\ packets = <<>>
    /\ acl_packets = <<>>
    /\ data_packets = <<>>
    /\ rfcomm_packets = <<>>
    /\ dlci12_packets = <<>>
    /\ parsed_packets = <<>>
    /\ sessions = <<>>
    /\ cmd_stats = <<>>
    /\ msg_types = <<>>
    /\ run = 1
    /\ first_run = NoRun
    /\ i = 1
    /\ raised = "none"
    /\ vehicle = VehicleState
    /\ emulator = ELM327Emulator
    /\ running = TRUE
    /\ drive = <<>>
    /\ bus = <<>>
    /\ requests = 0
    /\ commands = 0
    /\ last = <<>>
    /\ buffer = ""
    /\ stream \in (IF tool = ELM_CLIENT THEN ClientStreams ELSE {""})
    /\ received = ""
    /\ sent = (IF tool = ELM_CLIENT THEN <<">">> ELSE <<>>)

NextSim ==
    \/ ecu_input_loop
    \/ ecu_drive_sim
    \/ ecu_update_loop
    \/ ecu_message_loop
    \/ handle_client_recv
    \/ handle_client_closed
    \/ elm_update_loop
    \/ elm_interactive_mode

SpecSim == InitSim /\ [][NextSim]_vars

(***************************************************************************)
(* What the capture holds, from the records its producer wrote.            *)
(***************************************************************************)
RECURSIVE RecordEnd(_)
\* the file offset just after the k-th written record
RecordEnd(k) ==
    IF k = 0 THEN BTSNOOP_HEADER_SIZE
    ELSE RecordEnd(k - 1) + RECORD_HEADER_SIZE + Len(written[k].body)

\* the written records whose header and body are whole in the file
CompleteRecords ==
    Cardinality({k \in 1..Len(written) : RecordEnd(k) <= Len(file)})

\* the written records whose 24-byte header is whole in the file
CompleteHeaders ==
    Cardinality({k \in 1..Len(written) :
                    RecordEnd(k - 1) + RECORD_HEADER_SIZE <= Len(file)})

\* the file has its 16-byte header, which starts with the magic
ValidHeader == Len(file) >= BTSNOOP_HEADER_SIZE /\ StartsWith(file, BTSNOOP_MAGIC)

\* the file ends inside a record: bytes follow the last complete record
TruncatedTail == ValidHeader /\ Len(file) > RecordEnd(CompleteRecords)

\* parse_btsnoop is over
ParseOver == pc \notin {"parse_btsnoop", "read_record"}

\* the k-th packet is the k-th written record
SameRecord(k) ==
    /\ packets[k].data = written[k].body
    /\ packets[k].timestamp = k
    /\ packets[k].direction = (IF written[k].flags % 2 = 1 THEN "RX" ELSE "TX")

(***************************************************************************)
(* C1 as stated: for a capture with a valid header, the number of records  *)
(* parse_btsnoop returns equals the number of 24-byte record headers it    *)
(* read in full.                                                           *)
(***************************************************************************)
C1_CountEqualsHeadersRead ==
    (ValidHeader /\ ParseOver) => Len(packets) = headers_read

(***************************************************************************)
(* C1 amended: for a capture with a valid header, parse_btsnoop returns    *)
(* without an error, in file order, exactly the records whose 24-byte      *)
(* header and whole body were read before the end of the file: a header    *)
(* read in full whose body is cut short yields no record, and a file with  *)
(* only the 16-byte header yields no record.                               *)
(***************************************************************************)
C1_RecordsInFileOrder ==
    (ValidHeader /\ ParseOver) =>
        /\ raised = "none"
        /\ Len(packets) = CompleteRecords
        /\ \A k \in 1..Len(packets) : SameRecord(k)
        /\ headers_read = CompleteHeaders
        /\ Len(packets) <= headers_read /\ headers_read <= Len(packets) + 1
        /\ (Len(file) = BTSNOOP_HEADER_SIZE => packets = <<>>)

\* two records were returned, in the order written
C1_Witness ==
    /\ ValidHeader /\ ParseOver
    /\ Len(packets) = 2
    /\ written[1] # written[2]

(***************************************************************************)
(* C2: when the last record of the file is truncated (a header shorter     *)
(* than 24 bytes, or a body shorter than included_length), parse_btsnoop   *)
(* stops without raising, returns every earlier complete record unchanged  *)
(* and emits no record for the truncated one.                              *)
(***************************************************************************)
C2_TruncatedTailDropped ==
    (TruncatedTail /\ ParseOver) =>
        /\ raised = "none"
        /\ pos = Len(file)
        /\ Len(packets) = CompleteRecords
        /\ Len(packets) < Len(written)
        /\ \A k \in 1..Len(packets) : packets[k].data = written[k].body
        /\ \A k \in 1..Len(packets) : Len(packets[k].data) = Len(written[k].body)

\* a complete record, then a record whose header is whole and whose body is cut
C2_Witness ==
    /\ TruncatedTail /\ ParseOver
    /\ Len(packets) = 1
    /\ headers_read = 2

Range(s) == {s[k] : k \in 1..Len(s)}

\* where the link-layer header starts in a record body: after the type byte
\* for the scripts that read one, at the first byte for the others
Base == IF tool \in {V1, V2} THEN 1 ELSE 0

\* the 16-bit little-endian value at 0-based offset k
U16At(data, k) == data[k + 1] + 256 * data[k + 2]

\* the declared segment length, inner length and channel of a record body
DeclaredSegment(data) == U16At(data, Base + 2)
DeclaredInner(data) == U16At(data, Base + 4)
DeclaredChannel(data) == U16At(data, Base + 6)

\* the index in `packets` of the record an entry was made from
SourceIndex(e) == IF tool \in {A1, A2} THEN e.timestamp ELSE e.num
Source(e) == packets[SourceIndex(e)]

\* the frame a packet-layer entry hands to the data-link layer
FrameField(d) == IF tool = V1 THEN d.payload ELSE d.l2cap_data

\* the frames handed to the data-link layer, each with its record and channel
Frames ==
    IF tool \in {A1, A2}
    THEN {[src |-> k, cid |-> DeclaredChannel(packets[k].data),
           frame |-> SubSeq(packets[k].data, 9,
                            4 + DeclaredSegment(packets[k].data))] :
            k \in {j \in 1..Len(packets) :
                     /\ packets[j].type = "ACL"
                     /\ Len(packets[j].data) >= 8
                     /\ DeclaredSegment(packets[j].data) >= 4
                     /\ 4 + DeclaredSegment(packets[j].data) <= Len(packets[j].data)}}
    ELSE {[src |-> d.num, cid |-> d.cid, frame |-> FrameField(d)] :
            d \in Range(data_packets)}

\* the frame a data-link entry was made from
FrameOf(e) == (CHOOSE f \in Frames : f.src = SourceIndex(e)).frame

\* the control byte marks an UIH frame, with or without the poll/final bit
UihControl(frame) == frame[2] \in {239, 255}

\* the length field of a frame is in its 2-byte form
TwoByteForm(frame) == frame[3] % 2 = 0

\* the payload length and start the length field of a frame declares
DeclaredLen(frame) ==
    IF TwoByteForm(frame) THEN (frame[3] \div 2) + 128 * frame[4]
    ELSE frame[3] \div 2
DeclaredStart(frame) == IF TwoByteForm(frame) THEN 4 ELSE 3

\* an entry of the data-link layer was made from record k
EmittedFrom(k) == \E e \in Range(rfcomm_packets) : SourceIndex(e) = k

\* the record a script decodes to one payload byte: an UIH frame on channel
\* 0x0040 with payload 'A', under a type byte for the scripts that read one
GoodBody == AclBody(IF tool \in {V1, V2} THEN H4Acl ELSE NoPrefix, 0, 0, 64, GoodFrame)
GoodFor(k) ==
    /\ written[k].body = GoodBody
    /\ written[k].flags = (IF tool \in {V1, V2} THEN 1 ELSE 0)

\* the list the last layer of the script builds from the record bodies
LastList == IF tool = V2 THEN data_packets ELSE rfcomm_packets

(***************************************************************************)
(* C4: no single record can abort the decode. Whatever the record bodies   *)
(* are (empty, truncated, random bytes, bad lengths), no layer of packet   *)
(* extraction, data-link framing or vendor parsing lets an exception       *)
(* escape, and the records after a malformed one are still processed: the  *)
(* only exception of a run is the unpack of a file header shorter than 16  *)
(* bytes, before any record is read.                                       *)
(***************************************************************************)
C4_NoRecordAborts ==
    /\ raised # "none" =>
          /\ raised = "parse_btsnoop"
          /\ Len(file) < BTSNOOP_HEADER_SIZE
          /\ packets = <<>> /\ headers_read = 0
    /\ \A e \in Range(parsed_packets) : ~e.p.error
    /\ pc = "done" =>
          /\ Len(packets) = (IF ValidHeader THEN CompleteRecords ELSE 0)
          /\ \A k \in 1..Len(packets) :
                GoodFor(k) => \E e \in Range(LastList) : SourceIndex(e) = k

\* a record body too short for the segment header, then a good record that
\* is decoded
C4_Witness ==
    /\ pc = "done" /\ tool = A2
    /\ Len(packets) = 2
    /\ packets[1].type = "ACL" /\ Len(packets[1].data) < 4
    /\ GoodFor(2)
    /\ EmittedFrom(2) /\ ~EmittedFrom(1)

(***************************************************************************)
(* C5: the payload of an UIH frame is frame[start:start+len], where a      *)
(* first length byte with its low bit set gives len = byte >> 1 and start  *)
(* 3, and a first length byte with its low bit clear gives                 *)
(* len = (byte2 >> 1) | (byte3 << 7) and start 4.                          *)
(***************************************************************************)
C5_UihLengthDecode ==
    \A e \in Range(rfcomm_packets) :
        LET frame == FrameOf(e)
        IN  /\ Len(frame) >= 3
            /\ TwoByteForm(frame) => Len(frame) >= 4
            /\ Len(e.data) = DeclaredLen(frame)
            /\ DeclaredStart(frame) + DeclaredLen(frame) <= Len(frame)
            /\ e.data = SubSeq(frame, DeclaredStart(frame) + 1,
                               DeclaredStart(frame) + DeclaredLen(frame))

\* a payload of 130 bytes, declared in the 2-byte form, was emitted
C5_Witness ==
    /\ pc = "done" /\ tool = V3
    /\ \E e \in Range(rfcomm_packets) :
          /\ TwoByteForm(FrameOf(e))
          /\ FrameOf(e)[4] = 1
          /\ Len(e.data) = 130

\* the UIH frames on a dynamic channel that reach the length decode
UihFrames ==
    {f \in Frames : f.cid >= 64 /\ Len(f.frame) >= 3 /\ UihControl(f.frame)}

\* the length field lacks its second byte, or declares no payload, or
\* declares more than the frame holds
Dropped(frame) ==
    \/ TwoByteForm(frame) /\ Len(frame) < 4
    \/ DeclaredLen(frame) = 0
    \/ DeclaredStart(frame) + DeclaredLen(frame) > Len(frame)

(***************************************************************************)
(* C6: an UIH frame is dropped when its declared payload length is zero    *)
(* or exceeds the bytes left in the frame, or when the 2-byte length form  *)
(* lacks its second byte, and is emitted otherwise; every emitted payload  *)
(* is non-empty and lies inside its frame. (parse_btsnoop_v2.py has no     *)
(* data-link layer.)                                                       *)
(***************************************************************************)
C6_BadLengthDropped ==
    /\ \A e \in Range(rfcomm_packets) :
          /\ e.data # <<>>
          /\ ~Dropped(FrameOf(e))
          /\ \E a \in 3..Len(FrameOf(e)) :
                /\ a + Len(e.data) <= Len(FrameOf(e))
                /\ e.data = SubSeq(FrameOf(e), a + 1, a + Len(e.data))
    /\ (pc = "done" /\ tool # V2) =>
          \A f \in UihFrames : Dropped(f.frame) <=> ~EmittedFrom(f.src)

\* an UIH frame that declares more payload than it holds, and one that
\* declares none, were dropped
C6_Witness ==
    /\ pc = "done" /\ tool \in {V1, A1}
    /\ \E f \in UihFrames :
          /\ ~TwoByteForm(f.frame)
          /\ DeclaredLen(f.frame) > 0
          /\ 3 + DeclaredLen(f.frame) > Len(f.frame)
          /\ ~EmittedFrom(f.src)

(***************************************************************************)
(* C7: a frame whose control byte, with the poll/final bit cleared, is not *)
(* 0xEF never yields a payload.                                            *)
(***************************************************************************)
C7_OnlyUihYieldsPayload ==
    /\ \A e \in Range(rfcomm_packets) : UihControl(FrameOf(e))
    /\ pc = "done" =>
          \A f \in Frames :
              (Len(f.frame) >= 3 /\ ~UihControl(f.frame)) => ~EmittedFrom(f.src)

\* a frame with an other control byte, whose length field declares a
\* payload it holds, on a dynamic channel, yielded nothing
C7_Witness ==
    /\ pc = "done" /\ tool \in {A2, V3}
    /\ \E f \in Frames :
          /\ f.cid >= 64 /\ Len(f.frame) >= 4
          /\ f.frame[2] \in {47, 63, 99, 15, 67, 3}
          /\ ~Dropped(f.frame)
          /\ ~EmittedFrom(f.src)

\* the channel of the record an entry was made from
ChannelOf(e) == (CHOOSE f \in Frames : f.src = SourceIndex(e)).cid

(***************************************************************************)
(* C8: only the packets whose channel_id is 0x0040 or more reach the       *)
(* data-link layer: no payload comes from a packet on a channel below      *)
(* 0x0040.                                                                 *)
(***************************************************************************)
C8_OnlyDynamicChannels ==
    \A e \in Range(rfcomm_packets) : ChannelOf(e) >= 64

(***************************************************************************)
(* C9: a packet frame is produced from a record only if the segment length *)
(* the record declares is fully present in the record body.                *)
(***************************************************************************)
C9_SegmentFullyPresent ==
    /\ tool \in {V1, V2, V3} =>
          \A d \in Range(data_packets) :
              Base + 4 + DeclaredSegment(Source(d).data) <= Len(Source(d).data)
    /\ tool \in {A1, A2} =>
          \A e \in Range(rfcomm_packets) :
              4 + DeclaredSegment(Source(e).data) <= Len(Source(e).data)

(***************************************************************************)
(* C10: the payload of a packet frame is exactly the declared inner length *)
(* of bytes after the 4-byte inner header: no byte beyond it is in the     *)
(* payload, and a frame whose declared inner length exceeds the bytes      *)
(* available is skipped.                                                   *)
(***************************************************************************)
C10_ExactInnerLength ==
    /\ tool \in {V1, V2, V3} =>
          \A d \in Range(data_packets) :
              /\ Len(FrameField(d)) = DeclaredInner(Source(d).data)
              /\ FrameField(d) =
                    SubSeq(Source(d).data, Base + 9,
                           Base + 8 + DeclaredInner(Source(d).data))
    /\ tool \in {A1, A2} =>
          \A e \in Range(rfcomm_packets) :
              /\ DeclaredInner(Source(e).data) <= Len(FrameOf(e))
              /\ DeclaredStart(FrameOf(e)) + Len(e.data)
                    <= DeclaredInner(Source(e).data)

\* the link-type identifier in the file header
FileLinkType == BigEndian(Slice(file, 12, 16))

\* where the link-layer header of a record body starts under the link type
\* of the file: at the first byte for 1001, after the type byte otherwise
LinkBase == IF FileLinkType = 1001 THEN 0 ELSE 1

(***************************************************************************)
(* C11: the link type in the file header selects the mode for the whole    *)
(* capture: under link type 1001 the first byte of a record body is part   *)
(* of the link-layer header, never a type tag, and under the other link    *)
(* types the first byte is the type tag and the header follows it. So the  *)
(* handle and the channel of every packet frame are read at the offset the *)
(* link type gives.                                                        *)
(***************************************************************************)
C11_ModeFollowsLinkType ==
    /\ tool \in {V1, V2, V3} =>
          \A d \in Range(data_packets) :
              /\ Len(Source(d).data) >= LinkBase + 8
              /\ d.handle = U16At(Source(d).data, LinkBase) % 4096
              /\ d.cid = U16At(Source(d).data, LinkBase + 6)
              /\ LinkBase = 1 => Source(d).data[1] = HCI_ACL_DATA
    /\ tool \in {A1, A2} =>
          \A e \in Range(rfcomm_packets) :
              /\ Len(Source(e).data) >= LinkBase + 8
              /\ e.dlci = Source(e).data[LinkBase + 9] \div 4
              /\ LinkBase = 1 => Source(e).data[1] = HCI_ACL_DATA

\* what the vendor parser of the script returns for a DLCI 12 payload
VendorResult(d) ==
    IF tool = A1 THEN analyze_autel_packet(d.data, d.direction)
    ELSE parse_autel_packet(d.data, d.direction)

\* the DLCI 12 payloads the vendor parser of the script is called on
VendorInputs == IF tool \in {A1, A2} THEN Range(dlci12_packets) ELSE {}

(***************************************************************************)
(* C12 as stated: for every message the vendor parser accepts as valid,    *)
(* the offset it resolved is one of 0, 1, 4, 5 and the four bytes at       *)
(* data[offset .. offset+4] are the magic 55 55 AA AA.                     *)
(***************************************************************************)
C12_MagicAtOffset ==
    \A d \in VendorInputs :
        VendorResult(d).valid =>
            /\ VendorResult(d).offset \in {0, 1, 4, 5}
            /\ Slice(d.data, VendorResult(d).offset, VendorResult(d).offset + 4)
                  = AUTEL_MAGIC

(***************************************************************************)
(* C12 amended: for every message accepted as valid, parse_autel_packet    *)
(* resolves offset 0 or 1 and the magic is at data[offset .. offset+4]     *)
(* (offset 1 only for a received message that starts with a zero byte);    *)
(* analyze_autel_packet resolves offset 4 or 5, which is the offset just   *)
(* after the magic: the magic is at data[offset-4 .. offset] and the bytes *)
(* at data[offset .. offset+4] are the total length field.                 *)
(***************************************************************************)
C12_MagicAtOrBeforeOffset ==
    /\ \A d \in VendorInputs :
          LET r == VendorResult(d)
          IN  r.valid =>
                IF tool = A2
                THEN /\ r.offset \in {0, 1}
                     /\ Slice(d.data, r.offset, r.offset + 4) = AUTEL_MAGIC
                     /\ r.offset = 1 => (d.direction = "RX" /\ d.data[1] = 0)
                ELSE /\ r.offset \in {4, 5}
                     /\ Slice(d.data, r.offset - 4, r.offset) = AUTEL_MAGIC
                     /\ r.offset = 5 => (d.direction = "RX" /\ d.data[1] = 0)
                     /\ r.has_fields =>
                           r.total_len = LittleEndian(Slice(d.data, r.offset,
                                                            r.offset + 4))
    /\ \A e \in Range(parsed_packets) :
          /\ e.p.offset \in {0, 1}
          /\ Slice(e.raw, e.p.offset, e.p.offset + 4) = AUTEL_MAGIC

\* a received message with a zero byte before the magic was parsed, by
\* either script
C12_Witness ==
    /\ pc = "done"
    /\ \E d \in VendorInputs :
          /\ VendorResult(d).valid /\ VendorResult(d).has_fields
          /\ VendorResult(d).offset \in {1, 5}

\* where the magic of a vendor message is: at the first byte, or for a
\* received message after one zero byte; Err when it is at neither
MagicPosition(d) ==
    IF d.direction = "RX" /\ StartsWith(d.data, <<0>> \o AUTEL_MAGIC) THEN 1
    ELSE IF StartsWith(d.data, AUTEL_MAGIC) THEN 0
    ELSE Err

\* the magic is there and fewer than 40 bytes remain from it
TooShortForHeader(d) ==
    MagicPosition(d) # Err /\ Len(d.data) - MagicPosition(d) < 40

\* the bytes a string of hexadecimal digits stands for
Unhex(digits) ==
    [k \in 1..(Len(digits) \div 2) |-> 16 * digits[2 * k - 1] + digits[2 * k]]

(***************************************************************************)
(* C13: when the magic is found and fewer than 40 bytes remain from it,    *)
(* the vendor parser returns a short marker: valid, carrying the raw bytes *)
(* and no decoded header field, and so distinct from the invalid result    *)
(* returned when the magic is absent.                                      *)
(***************************************************************************)
C13_ShortMarker ==
    \A d \in VendorInputs :
        LET r == VendorResult(d)
        IN  /\ TooShortForHeader(d) =>
                  /\ r.valid /\ r.short
                  /\ ~r.has_fields /\ ~r.has_payload /\ ~r.has_ascii
                  /\ r.has_raw /\ Unhex(r.raw) = d.data
            /\ MagicPosition(d) = Err => (~r.valid /\ ~r.short)

\* the messages with the magic and the 40 bytes of the header after it
WholeHeader(d) == MagicPosition(d) # Err /\ ~TooShortForHeader(d)

RECURSIVE SumCounts(_, _)
\* the sum of the counts of the entries of cmd_stats under the keys ks
SumCounts(table, ks) ==
    IF ks = {} THEN 0
    ELSE LET k == CHOOSE x \in ks : TRUE
         IN  table[k].count + SumCounts(table, ks \ {k})

\* how many messages the collecting loop of the script has kept
Collected ==
    IF tool = A2 THEN Len(parsed_packets) ELSE SumCounts(cmd_stats, DOMAIN cmd_stats)

(***************************************************************************)
(* C14 as stated: a short message (magic found, too few bytes for the      *)
(* header) is retained in the output of the stage that collects the parsed *)
(* messages.                                                               *)
(***************************************************************************)
C14_ShortRetained ==
    (pc = "done" /\ tool = A2) =>
        \A d \in VendorInputs :
            TooShortForHeader(d) =>
                \E e \in Range(parsed_packets) : e.timestamp = d.timestamp

(***************************************************************************)
(* C14 amended: a short message is discarded by the stage that collects    *)
(* the parsed messages. main of analyze_autel_protocol_v2.py appends to    *)
(* parsed_packets and to the sessions exactly the messages that have the   *)
(* magic and the 40 bytes of the header, in order, and main of             *)
(* analyze_autel_protocol.py counts exactly those in cmd_stats; a short    *)
(* message is in neither.                                                  *)
(***************************************************************************)
C14_ShortDiscarded ==
    /\ \A e \in Range(parsed_packets) : e.p.valid /\ ~e.p.short /\ e.p.has_fields
    /\ \A sid \in DOMAIN sessions :
          \A k \in 1..Len(sessions[sid]) : ~sessions[sid][k].p.short
    /\ (pc = "done" /\ tool \in {A1, A2}) =>
          /\ Collected = Cardinality({k \in 1..Len(dlci12_packets) :
                                        WholeHeader(dlci12_packets[k])})
          /\ tool = A2 =>
                \A d \in VendorInputs :
                    WholeHeader(d) <=>
                        \E e \in Range(parsed_packets) :
                            e.timestamp = d.timestamp /\ e.raw = d.data

\* a run over a short message, which is in no list at the end
C14_Witness ==
    /\ pc = "done" /\ tool = A2
    /\ \E d \in VendorInputs : TooShortForHeader(d)
    /\ parsed_packets = <<>>
    /\ Len(packets) = 2

\* the total length field of a message with a whole header, and the byte
\* range of the payload it declares: [start, end)
DeclaredTotal(d) ==
    LittleEndian(Slice(d.data, MagicPosition(d) + 4, MagicPosition(d) + 8))
RangeStart(d) == MagicPosition(d) + 36
RangeEnd(d) == MagicPosition(d) + 4 + DeclaredTotal(d) - 4

(***************************************************************************)
(* C15: for every fully parsed vendor message the payload is the byte      *)
(* range [offset+36, offset+4+total_length-4) of the message, the check    *)
(* value is the little-endian 32-bit integer of the 4 bytes that start at  *)
(* the end of that range whenever those 4 bytes fit in the message, and    *)
(* the payload holds no byte of the check value.                           *)
(***************************************************************************)
C15_PayloadRange ==
    \A d \in VendorInputs :
        LET r == VendorResult(d)
        IN  (WholeHeader(d) /\ RangeStart(d) <= RangeEnd(d)
                            /\ RangeEnd(d) <= Len(d.data)) =>
                /\ r.valid /\ r.has_fields
                /\ r.payload = Slice(d.data, RangeStart(d), RangeEnd(d))
                /\ Len(r.payload) = RangeEnd(d) - RangeStart(d)
                /\ RangeEnd(d) + 4 <= Len(d.data) =>
                      /\ tool = A2
                      /\ r.has_crc
                      /\ r.crc = LittleEndian(Slice(d.data, RangeEnd(d),
                                                    RangeEnd(d) + 4))

\* a kept message that was sent and whose 28 header bytes after the total
\* length are zero, followed by some payload and a 4-byte check value
ZeroHeaderSent(e) ==
    /\ e.p.direction = "TX"
    /\ Len(e.raw) > 40
    /\ \A k \in 9..36 : e.raw[k] = 0

\* the total length field of a kept message that starts with the magic
RawTotal(e) == LittleEndian(SubSeq(e.raw, 5, 8))

\* the bytes between the header and the last 4 bytes of a kept message
RawPayload(e) == SubSeq(e.raw, 37, Len(e.raw) - 4)

RECURSIVE InRange(_)
\* the bytes of s in [0x20, 0x7E], in their order
InRange(s) ==
    IF s = <<>> THEN <<>>
    ELSE IF s[Len(s)] >= 32 /\ s[Len(s)] <= 126
         THEN Append(InRange(SubSeq(s, 1, Len(s) - 1)), s[Len(s)])
         ELSE InRange(SubSeq(s, 1, Len(s) - 1))

\* s from its first to its last byte that is not a blank
Trimmed(s) ==
    LET inked == {k \in 1..Len(s) : s[k] # 32}
    IN  IF inked = {} THEN <<>>
        ELSE SubSeq(s, CHOOSE k \in inked : \A m \in inked : k <= m,
                       CHOOSE k \in inked : \A m \in inked : k >= m)

\* the payload of a parser's result, empty when it set none
PayloadOf(r) == IF r.has_payload THEN r.payload ELSE <<>>

(***************************************************************************)
(* C17 as stated: the ascii excerpt is attached exactly when the payload   *)
(* has more than 3 bytes in [0x20, 0x7E]; it is then those bytes in their  *)
(* order, every other byte dropped, so it has more than 3 characters; the  *)
(* projection never fails.                                                 *)
(***************************************************************************)
C17_ExcerptIsPrintableRun ==
    /\ tool \in {A1, A2} => pc # "traceback"
    /\ \A d \in VendorInputs :
          LET r == VendorResult(d)
          IN  /\ r.has_ascii <=> Len(InRange(PayloadOf(r))) > 3
              /\ r.has_ascii =>
                    /\ r.ascii = InRange(PayloadOf(r))
                    /\ Len(r.ascii) > 3

(***************************************************************************)
(* C17 amended: the ascii excerpt is attached exactly when the payload has *)
(* more than 3 bytes in [0x20, 0x7E]; its value is those bytes in their    *)
(* order, every other byte dropped, and then the blanks (0x20) at its      *)
(* start and at its end removed, so an attached excerpt can have 3         *)
(* characters or fewer, and none when the printable bytes are all blanks;  *)
(* the projection never fails.                                             *)
(***************************************************************************)
C17_ExcerptIsTrimmedRun ==
    /\ tool \in {A1, A2} => pc # "traceback"
    /\ \A d \in VendorInputs :
          LET r == VendorResult(d)
          IN  /\ r.has_ascii <=> Len(InRange(PayloadOf(r))) > 3
              /\ r.has_ascii => r.ascii = Trimmed(InRange(PayloadOf(r)))
              /\ ~r.has_ascii => r.ascii = NoBytes

\* the run has parsed a payload of a blank and three letters, and one with
\* bytes outside the range, and attached an excerpt to each
C17_Witness ==
    /\ pc = "done"
    /\ \E d \in VendorInputs :
          LET r == VendorResult(d)
          IN  r.has_ascii /\ Len(r.ascii) <= 3
                 /\ Len(r.ascii) < Len(InRange(PayloadOf(r)))

\* what parse_autel_packet returns for a received message, but for where it
\* found the magic
Decoded(data) == [parse_autel_packet(data, "RX") EXCEPT !.offset = 0]

(***************************************************************************)
(* C18: for every received byte sequence d that starts with the magic,     *)
(* parse_autel_packet resolves offset 0 for d and offset 1 for 00 ++ d, and*)
(* returns for 00 ++ d the same validity and short status, the same header *)
(* fields, the same payload, check value and ascii excerpt as for d.       *)
(***************************************************************************)
C18_LeadingZeroShifts ==
    tool = A2 =>
        /\ \A d \in VendorInputs :
              LET bare == IF StartsWith(d.data, <<0>> \o AUTEL_MAGIC)
                          THEN Tail(d.data) ELSE d.data
              IN  (d.direction = "RX" /\ StartsWith(bare, AUTEL_MAGIC)) =>
                     /\ parse_autel_packet(bare, "RX").valid
                     /\ parse_autel_packet(bare, "RX").offset = 0
                     /\ parse_autel_packet(<<0>> \o bare, "RX").offset = 1
                     /\ Decoded(<<0>> \o bare) = Decoded(bare)
        /\ \A e \in Range(parsed_packets) :
              e.p.offset = 1 =>
                 /\ e.p.direction = "RX"
                 /\ e.raw # <<>> /\ e.raw[1] = 0
                 /\ [e.p EXCEPT !.offset = 0] = Decoded(Tail(e.raw))

\* the run has collected a received message that has a zero byte before the
\* magic, with its payload, check value and ascii excerpt
C18_Witness ==
    /\ pc = "done" /\ tool = A2
    /\ \E e \in Range(parsed_packets) :
          /\ e.p.offset = 1
          /\ e.p.has_payload /\ e.p.has_crc /\ e.p.has_ascii

\* the texts looked for in the ascii excerpt and the tags they give, in the
\* order of their priority
KnownTexts(direction) ==
    << << <<74, 50, 53, 51, 52>>,
          IF direction = "RX" THEN "DEVICE_ID_RESPONSE" ELSE "DEVICE_ID_REQUEST" >>,
       << <<65, 85, 84, 69, 76>>, "VENDOR_ID_RESPONSE" >>,
       << <<77, 97, 114, 32>>, "FIRMWARE_VERSION_RESPONSE" >>,
       << <<86, 50, 46>>, "FIRMWARE_VERSION_RESPONSE" >>,
       << <<77, 65, 88, 73>>, "DEVICE_NAME" >> >>

\* the command table of the sent messages: status, reserved (-1: any), tag
SentCommands ==
    << <<0, 0, "CONNECT_REQUEST">>, <<1, 4, "PASSTHRU_OPEN">>,
       <<1, 3, "PASSTHRU_CLOSE">>, <<11, -1, "GET_VERSION">>,
       <<2, -1, "READ_DATA">>, <<5, -1, "WRITE_DATA">>,
       <<8, -1, "START_MSG_FILTER">>, <<3, -1, "DISCONNECT">> >>

\* the least element of a set of numbers, 0 for the empty set
First(hits) == IF hits = {} THEN 0 ELSE CHOOSE k \in hits : \A m \in hits : k <= m

TextHit(r) ==
    First({k \in 1..Len(KnownTexts(r.direction)) :
              r.has_ascii /\ Contains(r.ascii, KnownTexts(r.direction)[k][1])})

CommandHit(r) ==
    First({k \in 1..Len(SentCommands) :
              /\ r.direction = "TX"
              /\ r.status = SentCommands[k][1]
              /\ SentCommands[k][2] \in {-1, r.reserved}})

\* the tag of a parsed message by the chain: excerpt, payload prefix, rule
\* of the direction on (status, reserved), default
ChainTag(r) ==
    IF TextHit(r) # 0 THEN KnownTexts(r.direction)[TextHit(r)][2]
    ELSE IF StartsWith(PayloadOf(r), <<94, 1, 0, 0>>) THEN "PASSTHRU_OPEN_RESPONSE"
    ELSE IF CommandHit(r) # 0 THEN SentCommands[CommandHit(r)][3]
    ELSE IF r.direction = "RX" /\ r.status = 0 THEN "SUCCESS_RESPONSE"
    ELSE "CMD_" \o FormatHex02(r.status) \o "_" \o FormatHex02(r.reserved)

\* msg_types counts each collected message under the tag of the chain
TalliedByChain ==
    /\ \A k \in 1..Len(parsed_packets) : ChainTag(parsed_packets[k].p) \in DOMAIN msg_types
    /\ \A t \in DOMAIN msg_types :
          msg_types[t].count =
             Cardinality({k \in 1..Len(parsed_packets) : ChainTag(parsed_packets[k].p) = t})

\* the messages analyze_autel_protocol.py counts under a key of cmd_stats
CountedUnder(key) ==
    {d \in VendorInputs :
        /\ VendorResult(d).valid /\ ~VendorResult(d).short
        /\ <<VendorResult(d).cmd1, VendorResult(d).cmd2>> = key}

(***************************************************************************)
(* C19 as stated: in both scripts the first matching rule of one chain     *)
(* decides the tag: a known text in the content wins over a known payload  *)
(* prefix, which wins over the rule on the two codes, which wins over the  *)
(* CMD_xx_xx default.                                                      *)
(***************************************************************************)
C19_ContentBeforeCodes ==
    /\ (tool = A2 /\ pc = "done") => TalliedByChain
    /\ tool = A1 =>
          \A key \in DOMAIN cmd_stats :
              \E d \in CountedUnder(key) :
                  LET r == VendorResult(d)
                  IN  cmd_stats[key].type =
                         IF a1_payload_rule(PayloadOf(r)) # NoMatch
                         THEN a1_payload_rule(PayloadOf(r))
                         ELSE IF a1_code_rule(r.cmd1, r.cmd2) # NoMatch
                         THEN a1_code_rule(r.cmd1, r.cmd2)
                         ELSE a1_default_tag(r.cmd1, r.cmd2)

(***************************************************************************)
(* C19 amended: identify_message_type of analyze_autel_protocol_v2.py is   *)
(* the chain as stated: a known text in the ascii excerpt, then the        *)
(* payload prefix 5E 01 00 00, then the rule of the direction on (status,  *)
(* reserved), then CMD_<status>_<reserved>. classify_command of            *)
(* analyze_autel_protocol.py has the other order: the rule on (cmd1, cmd2) *)
(* wins over a known text in the payload ("J2534", "Mar "), which wins     *)
(* over CMD_<cmd1>_<cmd2>.                                                 *)
(***************************************************************************)
C19_ChainPerScript ==
    /\ (tool = A2 /\ pc = "done") => TalliedByChain
    /\ tool = A1 =>
          \A key \in DOMAIN cmd_stats :
              \E d \in CountedUnder(key) :
                  LET r == VendorResult(d)
                  IN  cmd_stats[key].type =
                         IF key = <<0, 0>> THEN "STATUS/ACK"
                         ELSE IF key = <<1, 4>> THEN "CONNECT_REQUEST"
                         ELSE IF key[1] = 11 THEN "GET_VERSION"
                         ELSE IF key[1] = 3 THEN "DISCONNECT"
                         ELSE IF Contains(PayloadOf(r), <<74, 50, 53, 51, 52>>)
                         THEN "J2534_ID"
                         ELSE IF Contains(Hex(PayloadOf(r)), <<4, 13, 6, 1, 7, 2, 2, 0>>)
                         THEN "FIRMWARE_INFO"
                         ELSE "CMD_" \o FormatHex02(key[1]) \o "_" \o FormatHex02(key[2])

\* a sent message with "J2534" in its excerpt, the payload prefix 5E 01 00 00
\* and the codes (1, 4) of PASSTHRU_OPEN was tallied as a device id request
C19_Witness ==
    /\ tool = A2 /\ pc = "done"
    /\ \E e \in Range(parsed_packets) :
          /\ TextHit(e.p) = 1
          /\ StartsWith(PayloadOf(e.p), <<94, 1, 0, 0>>)
          /\ CommandHit(e.p) = 2
    /\ DOMAIN msg_types = {"DEVICE_ID_REQUEST"}

\* the tags the run has given so far
TagsGiven ==
    DOMAIN msg_types \cup {cmd_stats[key].type : key \in DOMAIN cmd_stats}

(***************************************************************************)
(* C20: every parsed message gets a non-empty type tag: whatever its       *)
(* direction, its status and reserved values, with or without payload or   *)
(* ascii excerpt, the classifier returns a string of at least one          *)
(* character, and the run tallies every collected message under such a tag.*)
(***************************************************************************)
C20_TagNonEmpty ==
    /\ \A t \in TagsGiven : Len(t) > 0 /\ t # NoMatch
    /\ \A e \in Range(parsed_packets) :
          Len(identify_message_type(e.p, e.p.direction)) > 0
    /\ tool = A1 =>
          \A d \in VendorInputs :
              LET r == VendorResult(d)
              IN  Len(classify_command(r.cmd1, r.cmd2, r.payload)) > 0
    /\ (tool = A2 /\ pc = "done") =>
          /\ \A e \in Range(parsed_packets) :
                identify_message_type(e.p, e.p.direction) \in DOMAIN msg_types
          /\ (parsed_packets # <<>>) => (msg_types # <<>>)

\* a received message with no payload and codes no rule knows was tallied
\* under the default tag
C20_Witness ==
    /\ tool = A2 /\ pc = "done"
    /\ \E e \in Range(parsed_packets) :
          /\ e.p.direction = "RX" /\ ~e.p.has_payload /\ ~e.p.has_ascii
          /\ e.p.status = 300 /\ e.p.reserved = 9
    /\ "CMD_12C_09" \in DOMAIN msg_types

\* the messages of the capture that the collecting loop of
\* analyze_autel_protocol_v2.py has gone over so far
Processed ==
    IF tool # A2 \/ pc \in {"parse_btsnoop", "read_record", "extract_rfcomm_data", "dlci12"}
    THEN <<>>
    ELSE IF pc = "main_loop" THEN SubSeq(dlci12_packets, 1, i - 1)
    ELSE dlci12_packets

\* the entry the loop keeps for a message
KeptEntry(d) ==
    [p |-> parse_autel_packet(d.data, d.direction), timestamp |-> d.timestamp,
     raw |-> d.data]

\* q is the start of r
IsPrefix(q, r) == Len(q) <= Len(r) /\ q = SubSeq(r, 1, Len(q))

\* each session holds the processed whole messages of its id, in the order
\* of the capture, and there is a session for each id seen
GroupedBySession ==
    LET whole == SelectSeq(Processed, WholeHeader)
        kept == [k \in 1..Len(whole) |-> KeptEntry(whole[k])]
    IN  /\ parsed_packets = kept
        /\ DOMAIN sessions = {kept[k].p.session_id : k \in 1..Len(kept)}
        /\ \A sid \in DOMAIN sessions :
              sessions[sid] = SelectSeq(kept, LAMBDA e : e.p.session_id = sid)
        /\ \A k \in 1..Len(kept) :
              Cardinality({<<sid, n>> \in UNION {{sid} \X (1..Len(sessions[sid])) :
                                                   sid \in DOMAIN sessions} :
                              sessions[sid][n] = kept[k]}) = 1

\* a step keeps every session and only appends to it
SessionsOnlyGrow ==
    \A sid \in DOMAIN sessions :
        sid \in DOMAIN sessions' /\ IsPrefix(sessions[sid], sessions'[sid])

(***************************************************************************)
(* C21: after any prefix of the capture has been processed, every message  *)
(* that parsed as valid and not short is in exactly one session, the one   *)
(* keyed by its session_id; within a session the messages are in the order *)
(* of the capture; and a session, once created, is never removed or        *)
(* shortened by a later step.                                              *)
(***************************************************************************)
C21_SessionsGroupInOrder ==
    /\ [](tool = A2 => GroupedBySession)
    /\ [][SessionsOnlyGrow \/ run' # run]_vars

\* three messages were collected: two of one session, in the order of the
\* capture and with a message of another session between them
C21_Witness ==
    /\ tool = A2 /\ pc = "done"
    /\ Len(parsed_packets) = 3
    /\ parsed_packets[1].p.session_id = 1
    /\ parsed_packets[2].p.session_id = 2
    /\ parsed_packets[3].p.session_id = 1
    /\ Len(sessions[1]) = 2 /\ Len(sessions[2]) = 1
    /\ sessions[1][1].timestamp < sessions[1][2].timestamp

Outcome(r) == IF ~r.valid THEN "invalid" ELSE IF r.short THEN "short" ELSE "parsed"

(***************************************************************************)
(* C28: for every byte sequence and direction handed to a vendor parser,   *)
(* analyze_autel_packet and parse_autel_packet agree on the outcome:       *)
(* invalid, valid but short, or fully parsed.                              *)
(***************************************************************************)
C28_ParsersAgree ==
    \A d \in VendorInputs :
        Outcome(analyze_autel_packet(d.data, d.direction))
           = Outcome(parse_autel_packet(d.data, d.direction))

\* the data-link payloads of subchannel 12 the script extracted (a record
\* gives at most one payload and record k has timestamp k)
OnSubchannel12 == SelectSeq(rfcomm_packets, LAMBDA r : r.dlci = 12)
FromSubchannel12(e) ==
    \E k \in 1..Len(rfcomm_packets) :
        /\ rfcomm_packets[k].timestamp = e.timestamp
        /\ rfcomm_packets[k].dlci = 12

\* a payload of another subchannel that holds a whole vendor message
WholeOffSubchannel12(r) ==
    /\ r.dlci # 12
    /\ WholeHeader(r)

(***************************************************************************)
(* C29: in both analyzers only data-link payloads whose subchannel id      *)
(* (address byte >> 2) is 12 reach the vendor parser: every payload handed *)
(* to it, every collected message, every member of a session and every     *)
(* counted message comes from subchannel 12, so a message with the vendor  *)
(* magic on another subchannel is never parsed, classified, counted or put *)
(* in a session.                                                           *)
(***************************************************************************)
C29_OnlySubchannel12 ==
    tool \in {A1, A2} =>
        /\ \A k \in 1..Len(dlci12_packets) : dlci12_packets[k].dlci = 12
        /\ pc \in {"main_loop", "msg_types", "done"} => dlci12_packets = OnSubchannel12
        /\ \A k \in 1..Len(parsed_packets) : FromSubchannel12(parsed_packets[k])
        /\ \A sid \in DOMAIN sessions :
              \A n \in 1..Len(sessions[sid]) : FromSubchannel12(sessions[sid][n])
        /\ SumCounts(msg_types, DOMAIN msg_types)
              <= Len(SelectSeq(OnSubchannel12, WholeHeader))
        /\ SumCounts(cmd_stats, DOMAIN cmd_stats)
              <= Len(SelectSeq(OnSubchannel12, WholeHeader))

\* analyze_autel_protocol_v2.py has ended on a capture with a whole vendor
\* message on subchannel 2 and one on subchannel 12: one message collected
C29_Witness ==
    /\ tool = A2 /\ pc = "done"
    /\ \E k \in 1..Len(rfcomm_packets) : WholeOffSubchannel12(rfcomm_packets[k])
    /\ Len(OnSubchannel12) = 1
    /\ Len(parsed_packets) = 1
    /\ SumCounts(msg_types, DOMAIN msg_types) = 1

\* the first little-endian 32-bit word of a payload is 0x0000015E
FirstWord015E(payload) ==
    Len(payload) >= 4 /\ UnpackLE(Slice(payload, 0, 4), 4) = 350

\* byte values around those of the word 0x0000015E
WordBytes == {0, 1, 94, 95}

(***************************************************************************)
(* C30: identify_message_type never returns 'PASSTHRU_RESPONSE': a payload *)
(* whose first little-endian 32-bit word is 0x0000015E starts with the     *)
(* bytes 5E 01 00 00, so the message is tagged PASSTHRU_OPEN_RESPONSE, or  *)
(* by a rule on the excerpt, before the rule on the first word is tried.   *)
(***************************************************************************)
C30_NeverPassthruResponse ==
    (tool = A2 /\ pc \in {"msg_types", "done"}) =>
        /\ "PASSTHRU_RESPONSE" \notin DOMAIN msg_types
        /\ \A k \in 1..Len(parsed_packets) :
              LET r == parsed_packets[k].p
                  tag == identify_message_type(r, r.direction)
              IN  /\ tag # "PASSTHRU_RESPONSE"
                  /\ FirstWord015E(PayloadOf(r)) =>
                        /\ StartsWith(PayloadOf(r), <<94, 1, 0, 0>>)
                        /\ \/ tag = "PASSTHRU_OPEN_RESPONSE"
                           \/ tag = a2_ascii_rule(r, r.direction)
        /\ pc = "done" =>
              \A w \in [1..4 -> WordBytes] :
                 FirstWord015E(w) <=> StartsWith(w, <<94, 1, 0, 0>>)

\* a message whose payload has the first word 0x0000015E and no known text
\* was tallied as PASSTHRU_OPEN_RESPONSE
C30_Witness ==
    /\ tool = A2 /\ pc = "done"
    /\ \E e \in Range(parsed_packets) :
          /\ FirstWord015E(PayloadOf(e.p))
          /\ a2_ascii_rule(e.p, e.p.direction) = NoMatch
    /\ "PASSTHRU_OPEN_RESPONSE" \in DOMAIN msg_types

\* the step is the message loop of the ECU simulator handling a request
\* for the stored (Mode 03) or the pending (Mode 07) codes
HandlesDtcRequest ==
    /\ tool = ECU_SIMULATOR
    /\ requests' = requests + 1
    /\ Len(last') >= 2
    /\ last'[2] \in {3, 7}

(***************************************************************************)
(* C23: in the ECU simulator, whatever the number of stored (pending)      *)
(* codes, handling a Mode 03 (Mode 07) request sends exactly one frame of  *)
(* exactly 8 data bytes with at most 3 encoded codes, and the message loop *)
(* keeps running afterwards.                                               *)
(***************************************************************************)
C23_OneFrameOfEightBytes ==
    [][HandlesDtcRequest =>
          /\ Len(bus') = Len(bus) + 1
          /\ SubSeq(bus', 1, Len(bus)) = bus
          /\ Len(bus'[Len(bus')]) = 8
          /\ bus'[Len(bus')][2] = 64 + last'[2]
          /\ pc' = "_message_loop"
          /\ running']_vars

(***************************************************************************)
(* C24: in the ECU simulator, once the 'e' command has turned the engine   *)
(* off, rpm is 0 in every later state until the engine is turned on again, *)
(* under every interleaving of the input thread, a drive-simulation thread *)
(* and the update loop.                                                    *)
(***************************************************************************)
C24_EngineOffRpmZero ==
    (tool = ECU_SIMULATOR /\ ~vehicle.engine_running) => vehicle.rpm = 0

RECURSIVE WholeCommands(_)
\* the commands of a text: what stands before each of its carriage returns
WholeCommands(text) ==
    IF FirstCR(text) = 0 THEN <<>>
    ELSE <<SubSeq(text, 1, FirstCR(text) - 1)>>
            \o WholeCommands(SubSeq(text, FirstCR(text) + 1, Len(text)))

RECURSIVE Unterminated(_)
\* what stands after the last carriage return of a text
Unterminated(text) ==
    IF FirstCR(text) = 0 THEN text
    ELSE Unterminated(SubSeq(text, FirstCR(text) + 1, Len(text)))

RECURSIVE Replies(_, _, _)
\* the responses of an emulator with settings e to the commands cmds, one
\* after the other
Replies(e, v, cmds) ==
    IF cmds = <<>> THEN <<>>
    ELSE <<process_command(e, v, Head(cmds)).response>>
            \o Replies(process_command(e, v, Head(cmds)).emulator,
                       process_command(e, v, Head(cmds)).vehicle, Tail(cmds))

NonEmptyText(t) == t # ""

SampleCommands ==
    { "ATE0", "ate1", "ATE1", "atl0", "ATL1", " atz ", "ATI", "03", "  04", "0101",
      "hello", "ATS0", " ", "\n", "at e0" }

\* the echo as the setting before the command has it, the line end as the
\* setting after the command has it
EchoBefore(e, text) == IF e.echo THEN text \o "\r" ELSE ""
LineEndAfter(r) == IF r.emulator.linefeed THEN "\r\n>" ELSE "\r>"
EndsWithPrompt(t) == Len(t) >= 1 /\ SubSeq(t, Len(t), Len(t)) = ">"

(***************************************************************************)
(* C27 as stated: for every non-empty command the response ends with '>',  *)
(* starts with the upper-cased command and a carriage return exactly when  *)
(* echo was on before the command took effect, and ends with the line end  *)
(* ('\r\n>' or '\r>') of the linefeed setting after it took effect.        *)
(***************************************************************************)
C27_EchoBeforeLineEndAfter ==
    tool \in {ELM_CLIENT, ELM_INTERACTIVE} =>
        \A c \in SampleCommands :
            LET r == process_command(emulator, vehicle, c)
            IN  /\ EndsWithPrompt(r.response)
                /\ r.response = EchoBefore(emulator, Upper(c)) \o r.result \o LineEndAfter(r)

(***************************************************************************)
(* C27: the response to a command that is not empty once stripped of the   *)
(* blanks around it ends with '>', starts with the stripped, upper-cased   *)
(* command and a carriage return exactly when echo was on before the       *)
(* command took effect, and ends with the line end of the linefeed setting *)
(* after it took effect; the response to a command of blanks is '>' alone. *)
(***************************************************************************)
C27_StrippedEchoBeforeLineEndAfter ==
    tool \in {ELM_CLIENT, ELM_INTERACTIVE} =>
        \A c \in SampleCommands :
            LET r == process_command(emulator, vehicle, c)
            IN  /\ EndsWithPrompt(r.response)
                /\ StripText(c) # "" =>
                      r.response = EchoBefore(emulator, Upper(StripText(c))) \o r.result
                                      \o LineEndAfter(r)
                /\ StripText(c) = "" => r.response = ">" /\ r.emulator = emulator

\* a client sent ATE0 and then ATE1: the first response was echoed and left
\* echo off, the second was not echoed and left echo on
C27_Witness ==
    /\ tool = ELM_CLIENT
    /\ sent = <<">", "ATE0\rOK\r\n>", "OK\r\n>">>
    /\ emulator.echo

\* no code stored, none pending, MIL off
Cleared(v) == v.stored_dtcs = <<>> /\ v.pending_dtcs = <<>> /\ ~v.mil_on
DtcList(v, sid) == IF sid = 3 THEN v.stored_dtcs ELSE v.pending_dtcs

\* the step is the ECU simulator's message loop handling a request of
\* service sid
EcuHandles(sid) ==
    /\ tool = ECU_SIMULATOR
    /\ requests' = requests + 1
    /\ Len(last') >= 2
    /\ last'[2] = sid

\* text is an OBD command of service sid, as process_command reads it
IsObdCommand(text, sid) ==
    /\ Len(text) >= 2
    /\ \A k \in 1..Len(text) : SubSeq(text, k, k) \in UpperHexDigits
    /\ HexToInt(SubSeq(text, 1, 2)) = sid

\* the step is the interactive ELM327 emulator handling a command of
\* service sid
ElmHandles(sid) ==
    /\ tool = ELM_INTERACTIVE
    /\ commands' = commands + 1
    /\ IsObdCommand(Upper(StripText(last')), sid)

\* the step adds a code: the 'd' command of the ECU simulator, the 'set'
\* line of the interactive emulator
AddsDtc ==
    \/ tool = ECU_SIMULATOR /\ commands' = commands + 1
    \/ /\ tool = ELM_INTERACTIVE
       /\ commands' = commands + 1
       /\ StartsWithText(Lower(StripText(last')), "set dtc ")

\* the answer that reports no code
EcuReportsZero(sid) == bus' = Append(bus, <<2, 64 + sid, 0, 0, 0, 0, 0, 0>>)
ElmReportsZero(sid) ==
    sent' = Append(sent,
                   EchoBefore(emulator, Upper(StripText(last')))
                      \o FormatHex02(64 + sid) \o (IF emulator.spaces THEN " " ELSE "")
                      \o "00" \o (IF emulator.linefeed THEN "\r\n>" ELSE "\r>"))

ClearedUntilAdded ==
    /\ (EcuHandles(4) \/ ElmHandles(4)) => Cleared(vehicle')
    /\ \A sid \in {3, 7} :
          /\ (EcuHandles(sid) /\ DtcList(vehicle, sid) = <<>>) => EcuReportsZero(sid)
          /\ (ElmHandles(sid) /\ DtcList(vehicle, sid) = <<>>) => ElmReportsZero(sid)
          /\ (DtcList(vehicle, sid) = <<>> /\ DtcList(vehicle', sid) # <<>>) => AddsDtc

(***************************************************************************)
(* C26: after a Mode 04 request (command '04' of the ELM327 emulator,      *)
(* service 0x04 of the ECU simulator) the stored and the pending list are  *)
(* empty and the MIL is off, and every later Mode 03 and Mode 07 request   *)
(* reports zero codes until a code is added again: a list that is empty    *)
(* stays empty through every step that adds no code, and a request for an  *)
(* empty list is answered with a count of zero.  A client of the emulator  *)
(* has no way to add a code, so there the lists are always empty.          *)
(***************************************************************************)
C26_ClearedUntilAdded ==
    /\ [](tool = ELM_CLIENT => Cleared(vehicle))
    /\ [][ClearedUntilAdded]_vars

\* the ECU simulator reported one stored code, cleared it on a Mode 04
\* request and answered the next Mode 03 request with a count of zero
C26_Witness ==
    /\ tool = ECU_SIMULATOR
    /\ bus = << <<4, 67, 1, 3, 0, 0, 0, 0>>, <<1, 68, 0, 0, 0, 0, 0, 0>>,
                <<2, 67, 0, 0, 0, 0, 0, 0>> >>
    /\ Cleared(vehicle)

====
